---- MODULE Spec2Model ----
(***************************************************************************)
(* A model of the oddworks Brightcove provider: the API client with its    *)
(* bounded request queue, the schedule check, the two query handlers and   *)
(* the playlist and video fetch orchestrators.                             *)
(*                                                                         *)
(* JavaScript values are records tagged by a field t, so that values of    *)
(* different shapes can be compared.  An object with optional keys is a    *)
(* function whose DOMAIN is the set of keys it has.                        *)
(***************************************************************************)
EXTENDS Integers, Sequences, FiniteSets, TLC

(***************************************************************************)
(* Bounds of the model.                                                    *)
(***************************************************************************)
NumCalls == 3
MaxLimit == 2
MaxVideos == 2
MaxTime == 3

(* The default ceiling of the request queue. *)
CONCURRENT_REQUEST_LIMIT == 20

VARIABLES
  client,      \* the Client instance: its credentials, flags and limit
  pending,     \* the tasks the queue holds, not yet handed to Client.request
  inflight,    \* the tasks handed to Client.request and not settled
  calls,       \* per caller: the client call (get*) it has in progress
  orch,        \* per caller: the handler and orchestrator it runs
  broadcasts,  \* the events published with bus.broadcast, in order
  sent,        \* the requests handed to Client.request so far
  issued,      \* the number of access tokens the OAuth server has issued
  upstream,    \* what the Brightcove account holds: a playlist's videos,
               \* and the schedule of the video that is asked for
  provider,    \* initialize: its options, the handlers it has created and
               \* registered on the bus, and what it has returned
  probe        \* a static function of the Client applied to one input: the
               \* input and the value it gave

vars ==
  <<client, pending, inflight, calls, orch, broadcasts, sent, issued, upstream,
    provider, probe>>

Procs == 1..NumCalls

(***************************************************************************)
(* Values.                                                                 *)
(***************************************************************************)
Null == [t |-> "null"]
Undefined == "undefined"
EmptyObject == [t |-> "object"]

isString(x) == x # Undefined

(* _.get(object, key, default): the default only for a missing or undefined value *)
Get(obj, key, default) ==
  IF key \in DOMAIN obj /\ obj[key] # Undefined THEN obj[key] ELSE default

(* a || b on strings: the empty string and undefined are falsy *)
OrElse(a, b) == IF a # Undefined /\ a # "" THEN a ELSE b

Has(obj, key) == key \in DOMAIN obj

(* Object.assign({}, a, b): b's keys win *)
Assign(a, b) ==
  [k \in (DOMAIN a) \cup (DOMAIN b) |-> IF k \in DOMAIN b THEN b[k] ELSE a[k]]

NoKeys == [k \in {} |-> Undefined]

(***************************************************************************)
(* Numbers with NaN, as Date.parse yields them.                            *)
(***************************************************************************)
Num(n) == [n |-> n, nan |-> FALSE]
NaN == [n |-> 0, nan |-> TRUE]

(* A raw timestamp of a record: a parsable date, or anything else. *)
Iso(n) == [parsable |-> TRUE, at |-> n]
Unparsable == [parsable |-> FALSE, at |-> 0]

DateParse(raw) == IF raw.parsable THEN Num(raw.at) ELSE NaN

(* lodash toFinite: NaN becomes 0 *)
toFinite(x) == IF x.nan THEN 0 ELSE x.n

PlusOne(x) == IF x.nan THEN NaN ELSE Num(x.n + 1)

Min(a, b) == IF a <= b THEN a ELSE b
Max(a, b) == IF a >= b THEN a ELSE b

(* _.inRange(number, start, end): start <= number < end, the bounds swapped
   when start > end *)
inRange(number, start, end) ==
  LET s == toFinite(start)
      e == toFinite(end)
  IN  number >= Min(s, e) /\ number < Max(s, e)

Less(now, x) == ~x.nan /\ now < x.n

(* now <= x in JavaScript: false when x is NaN *)
LessEq(now, x) == ~x.nan /\ now <= x.n

(***************************************************************************)
(* Client.resolveIfScheduled: the record itself, or null.                  *)
(* _.isNumber is true of NaN as well, so both tests of it always pass.     *)
(* A schedule is [has, value, starts_at, ends_at]: whether the record has  *)
(* the property, and whether its value is an object, null or undefined.    *)
(***************************************************************************)
NoSchedule ==
  [has |-> FALSE, value |-> "undefined", starts_at |-> Unparsable,
   ends_at |-> Unparsable]
Schedule(s, e) == [has |-> TRUE, value |-> "object", starts_at |-> s, ends_at |-> e]

resolveIfScheduledUnlessAbsent(video, now) ==
  IF video.schedule.value = "object" THEN video ELSE Null

resolveIfScheduled(video, now) ==
  IF /\ video.schedule.has
     /\ video.schedule.value # "null"
     /\ video.schedule.value # "undefined"
  THEN LET startsAt == DateParse(video.schedule.starts_at)
           endsAt == DateParse(video.schedule.ends_at)
       IN  IF inRange(now, startsAt, PlusOne(endsAt))
           THEN Null
           ELSE IF LessEq(now, startsAt)
                THEN Null
                ELSE video
  ELSE video

(***************************************************************************)
(* Authorization headers.                                                  *)
(***************************************************************************)
(* Basic base64(clientId:clientSecret): the encoding is one to one *)
getBasicAuthorization(clientId, clientSecret) ==
  [scheme |-> "Basic", id |-> clientId, secret |-> clientSecret]

getBearerAuthorization(accessToken) ==
  [scheme |-> "Bearer", token |-> accessToken]

getBCOVPolicyAuthorization(policyKey) ==
  [key |-> policyKey, scheme |-> "BCOV-Policy"]

(* An access token: one the OAuth server issued, or one the caller gave. *)
IssuedToken(n) == [issued |-> n]
GivenToken(s) == [given |-> s]

OAUTH_BASE_URL == "https://oauth.brightcove.com/v3"
CMS_API_BASE_URL == "https://cms.api.brightcove.com/v1"
PLAYBACK_API_BASE_URL == "https://edge.api.brightcove.com/playback/v1"


(***************************************************************************)
(* Client.request: what a response of the transport settles the request    *)
(* with.  A response is [err, statusCode, contentType, body]; a body is    *)
(* [isString, wellFormed, json]: a string that JSON.parse reads as json, a *)
(* string it rejects, or no string at all.                                 *)
(***************************************************************************)
Resolved(v) == [v |-> v, ok |-> TRUE]
Rejected(e) == [v |-> e, ok |-> FALSE]
(* new Error(`message ${arg}`), and what it says about a status code *)
Error(message, arg) ==
  [t |-> "error", message |-> message, arg |-> arg, code |-> Undefined,
   status |-> 0]
StatusError(message, status) ==
  [t |-> "error", message |-> message, arg |-> "", code |-> Undefined,
   status |-> status]
(* Boom.create(statusCode, message, data): the status in output.statusCode,
   the message and the data as given *)
Boom(statusCode, message, data) ==
  [t |-> "error", message |-> message, arg |-> "", code |-> Undefined,
   status |-> statusCode, data |-> data,
   isBoom |-> TRUE, output |-> [statusCode |-> statusCode]]
Unsettled == [v |-> [t |-> "unsettled"], ok |-> FALSE]

JsonBody(v) == [isString |-> TRUE, wellFormed |-> TRUE, json |-> v]
MalformedBody == [isString |-> TRUE, wellFormed |-> FALSE, json |-> Null]
NoBody == [isString |-> FALSE, wellFormed |-> FALSE, json |-> Null]

JSON_TYPE == <<"application/json">>
HTML_TYPE == <<"text/html">>

(* res.statusMessage is the reason phrase of the status line *)
Response(status, contentType, body) ==
  [statusCode |-> status, contentType |-> contentType, body |-> body,
   err |-> FALSE, statusMessage |-> <<"reason", status>>]
TransportFailure ==
  [statusCode |-> 0, contentType |-> <<>>, body |-> NoBody, err |-> TRUE,
   statusMessage |-> <<>>]

(* /20\d/ on a three-digit status code: 200..209 *)
STATUS_CODE_20X_MATCHER(statusCode) == statusCode \div 10 = 20

(* /^application\/json/ : the content type starts with application/json *)
CONTENT_TYPE_MATCHER(contentType) ==
  Len(contentType) > 0 /\ contentType[1] = "application/json"

requestRejects404(res) ==
  IF res.err \/ res.statusCode = 404
  THEN Rejected(Error("transport error", ""))
  ELSE Resolved(res.body.json)

request(res) ==
  IF res.err
  THEN Rejected(Error("transport error", ""))
  ELSE IF res.statusCode = 404
  THEN Resolved(Null)
  ELSE IF ~STATUS_CODE_20X_MATCHER(res.statusCode)
  THEN Rejected(StatusError("brightcove client unexpected status code", res.statusCode))
  ELSE IF res.statusCode = 204
  THEN Resolved(EmptyObject)
  ELSE IF CONTENT_TYPE_MATCHER(res.contentType) /\ res.body.isString
  THEN IF res.body.wellFormed
       THEN Resolved(res.body.json)
       ELSE Rejected(Error("brightcove client JSON parsing error", ""))
  ELSE IF CONTENT_TYPE_MATCHER(res.contentType)
  THEN Rejected(Error("brightcove client received an empty JSON body", ""))
  ELSE Rejected(Error("brightcove client expects content-type to be application/json", ""))

(* Client.request of the client with the policy key: no 204, and a Boom
   error with the status for a status that is not 20x *)
requestOfPolicyClient(res) ==
  IF res.err
  THEN Rejected(Error("transport error", ""))
  ELSE IF res.statusCode = 404
  THEN Resolved(Null)
  ELSE IF ~STATUS_CODE_20X_MATCHER(res.statusCode)
  THEN Rejected(Boom(res.statusCode, res.statusMessage, res.body))
  ELSE IF CONTENT_TYPE_MATCHER(res.contentType) /\ res.body.isString
  THEN IF res.body.wellFormed
       THEN Resolved(res.body.json)
       ELSE Rejected(Error("brightcove client JSON parsing error", ""))
  ELSE IF CONTENT_TYPE_MATCHER(res.contentType)
  THEN Rejected(Error("brightcove client received an empty JSON body", ""))
  ELSE Rejected(Error("brightcove client expects content-type to be application/json", ""))

(***************************************************************************)
(* The upstream records of the model.                                      *)
(***************************************************************************)
Image(scheme, src, width, height) ==
  [scheme |-> scheme, src |-> src, width |-> width, height |-> height]

Images ==
  [poster |-> <<Image("https", "P1", 2, 1), Image("http", "P2", 2, 1)>>,
   thumbnail |-> <<Image("https", "T1", 1, 1)>>]

Video(id, publishedAt, schedule) ==
  [t |-> "video", schedule |-> schedule, id |-> id, published_at |-> publishedAt,
   images |-> Images]

(* Schedules: none, an open one that starts at 2, a window 1..2. *)
Schedules == {NoSchedule, Schedule(Iso(2), Unparsable), Schedule(Iso(1), Iso(2))}

(* The videos a playlist may hold: V1 and V3 are published at the same time. *)
VideoPool ==
  {Video("V1", 2, NoSchedule), Video("V2", 1, NoSchedule),
   Video("V3", 2, NoSchedule), Video("V3", 2, Schedule(Iso(2), Unparsable)),
   Video(Undefined, 3, NoSchedule)}

RECURSIVE ListsOver(_, _)
ListsOver(S, n) ==
  IF n = 0 THEN {<<>>}
  ELSE LET shorter == ListsOver(S, n - 1)
       IN  shorter \cup
           {Append(l, x) : l \in {m \in shorter : Len(m) = n - 1},
                           x \in S}

Ids(l) == {l[i].id : i \in 1..Len(l)}

(* The bodies of a playlist's video listing: no video twice. *)
VideoLists ==
  {l \in ListsOver(VideoPool, MaxVideos) : Cardinality(Ids(l)) = Len(l)}

List(l) == [t |-> "list", videos |-> l]
Playlist(id) == [t |-> "playlist", id |-> id, name |-> "N", description |-> "D"]
(* the token the OAuth server issues in answer to token request r *)
Token(r) == [t |-> "token", access_token |-> IssuedToken(<<r.proc, r.call>>)]
Source(scheme, src, container, type, assetId) ==
  [scheme |-> scheme, src |-> src, width |-> 2, height |-> 1,
   container |-> container, type |-> type, asset_id |-> assetId, encoding_rate |-> 0]

Sources ==
  [t |-> "sources",
   sources |-> <<Source("https", "S1", "MP4", Undefined, "A1"),
                 Source("http", "S2", "MP4", Undefined, "A2"),
                 Source("https", "S3", "M2TS", "application/x-mpegURL", Undefined),
                 Source("https", "S4", Undefined, Undefined, Undefined),
                 Source("none", Undefined, "MP4", Undefined, "A5")>>]

(***************************************************************************)
(* Requests.  proc names the promise the task settles.                     *)
(***************************************************************************)
Request(p, method, baseUrl, path, authorization) ==
  [proc |-> p, call |-> calls[p].seq + 1, method |-> method, baseUrl |-> baseUrl, path |-> path,
   authorization |-> authorization]

IsTokenRequest(r) == r.baseUrl = OAUTH_BASE_URL

(* The responses the upstream servers may give to a request. *)
Responses(r, account) ==
  IF IsTokenRequest(r)
  THEN {Response(200, JSON_TYPE, JsonBody(Token(r))),
        Response(401, JSON_TYPE, MalformedBody)}
  ELSE {Response(404, HTML_TYPE, NoBody), Response(404, JSON_TYPE, MalformedBody),
        Response(404, JSON_TYPE, JsonBody(Playlist("other"))),
        Response(500, HTML_TYPE, NoBody), TransportFailure} \cup
       (IF Len(r.path) = 3
        THEN {Response(200, JSON_TYPE, JsonBody(List(account.videos)))}
        ELSE IF Len(r.path) = 4 /\ r.path[3] = "playlists"
        THEN {Response(200, JSON_TYPE, JsonBody(Playlist(r.path[4])))}
        ELSE IF Len(r.path) = 5 /\ r.path[5] = "videos"
        THEN {Response(200, JSON_TYPE, JsonBody(List(account.videos)))}
        ELSE IF Len(r.path) = 4 /\ r.path[3] = "videos"
        THEN {Response(200, JSON_TYPE,
                       JsonBody(Video(r.path[4], 1, account.schedule)))}
        ELSE {Response(200, JSON_TYPE, JsonBody(Sources))})


(***************************************************************************)
(* The Client.  new Client(args) keeps the credentials as given and sets   *)
(* the queue's concurrency: parseInt(limit, 10) || CONCURRENT_REQUEST_LIMIT,*)
(* where a limit of 0 stands for one that is missing or does not parse.    *)
(* The variant "policy" is the client that reads a video from the playback *)
(* API with a policy key; it has no queue and no getVideoSources.          *)
(***************************************************************************)
Constructor(variant, clientId, clientSecret, accountId, policyKey, limit) ==
  [clientId |-> clientId, clientSecret |-> clientSecret, policyKey |-> policyKey,
   variant |-> variant, accountId |-> accountId,
   skipScheduleCheck |-> FALSE,
   concurrentRequestLimit |->
     IF limit = 0 THEN CONCURRENT_REQUEST_LIMIT ELSE limit]

NoFlags == [k \in {} |-> FALSE]
GetFlag(flags, key, default) == IF key \in DOMAIN flags THEN flags[key] ELSE default

IdleCall ==
  [now |-> 0, token |-> Unsettled, status |-> 0, method |-> "none",
   seq |-> 0, flags |-> NoFlags, phase |-> "idle", args |-> NoKeys,
   outcome |-> Unsettled, threw |-> FALSE]

Arg(args, key) == IF key \in DOMAIN args THEN args[key] ELSE Undefined

IdKey(method) ==
  IF method \in {"getPlaylist", "getVideosByPlaylist"} THEN "playlistId" ELSE "videoId"

Path(method, accountId, id) ==
  IF method = "getPlaylist" THEN <<"accounts", accountId, "playlists", id>>
  ELSE IF method = "getVideosByPlaylist"
  THEN <<"accounts", accountId, "playlists", id, "videos">>
  ELSE IF method = "getVideo" THEN <<"accounts", accountId, "videos", id>>
  ELSE IF method = "getVideos" THEN <<"accounts", accountId, "videos">>
  ELSE <<"accounts", accountId, "videos", id, "sources">>

(* What a call that throws before it returns a promise leaves. *)
Threw(p, method, args, flags, message) ==
  [call |-> [IdleCall EXCEPT !.method = method, !.phase = "settled",
               !.seq = calls[p].seq + 1,
               !.args = args, !.flags = flags, !.threw = TRUE,
               !.outcome = Rejected(Error(message, method))],
   push |-> <<>>, direct |-> {}]

getAccessTokenByRequest(p, method, args, flags) ==
  [call |-> [IdleCall EXCEPT !.method = method, !.args = args, !.flags = flags,
               !.seq = calls[p].seq + 1, !.phase = "token"],
   push |-> <<Request(p, "POST", OAUTH_BASE_URL, <<"access_token">>,
               getBasicAuthorization(Get(args, "clientId", client.clientId),
                                     Get(args, "clientSecret", client.clientSecret)))>>,
   direct |-> {}]

(* getAccessToken(args), as the first step of a get* method of caller p *)
getAccessToken(p, method, args, flags) ==
  LET base == [IdleCall EXCEPT !.method = method, !.args = args, !.flags = flags,
                 !.seq = calls[p].seq + 1]
      clientId == Get(args, "clientId", client.clientId)
      clientSecret == Get(args, "clientSecret", client.clientSecret)
  IN  IF isString(Arg(args, "accessToken"))
      THEN [call |-> [base EXCEPT !.phase = "tokenSettled",
                        !.token = Resolved([t |-> "token",
                                     access_token |-> GivenToken(args["accessToken"])])],
            push |-> <<>>, direct |-> {}]
      ELSE IF ~isString(clientId)
      THEN Threw(p, method, args, flags, "A clientId string is required for getAccessToken()")
      ELSE IF ~isString(clientSecret)
      THEN Threw(p, method, args, flags, "A clientSecret string is required for getAccessToken()")
      ELSE [call |-> [base EXCEPT !.phase = "token"],
            push |-> <<Request(p, "POST", OAUTH_BASE_URL, <<"access_token">>,
                        getBasicAuthorization(clientId, clientSecret))>>,
            direct |-> {}]

(* getPlaylist, getVideosByPlaylist, getVideo, getVideoSources and getVideos
   of the client with the queue: the checks that throw, then getAccessToken;
   getVideos takes no id *)
QueueClientCallUnchecked(p, method, args, flags) ==
  getAccessToken(p, method, args, flags)

QueueClientCall(p, method, args, flags) ==
  LET accountId == Get(args, "accountId", client.accountId)
  IN  IF ~isString(accountId)
      THEN Threw(p, method, args, flags, "An accountId string is required")
      ELSE IF method # "getVideos" /\ ~isString(Arg(args, IdKey(method)))
      THEN Threw(p, method, args, flags, "An id string is required")
      ELSE getAccessToken(p, method, args, flags)

(* getVideo of the client with the policy key: no token, no queue; a method
   the client does not have is a TypeError *)
PolicyClientCall(p, method, args, flags) ==
  LET policyKey == OrElse(Arg(args, "policyKey"), client.policyKey)
      accountId == OrElse(Arg(args, "accountId"), client.accountId)
      videoId == Arg(args, "videoId")
  IN  IF method # "getVideo"
      THEN Threw(p, method, args, flags, "TypeError: not a function")
      ELSE IF policyKey = Undefined \/ policyKey = ""
      THEN Threw(p, method, args, flags, "A policyKey is required to getVideo()")
      ELSE IF accountId = Undefined \/ accountId = ""
      THEN Threw(p, method, args, flags, "An accountId is required to getVideo()")
      ELSE IF videoId = Undefined \/ videoId = ""
      THEN Threw(p, method, args, flags, "A videoId is required to getVideo()")
      ELSE [call |-> [IdleCall EXCEPT !.method = method, !.args = args,
                        !.flags = flags, !.phase = "resource",
                        !.seq = calls[p].seq + 1],
            push |-> <<>>,
            direct |-> {Request(p, "GET", PLAYBACK_API_BASE_URL,
                          Path(method, accountId, videoId),
                          getBCOVPolicyAuthorization(policyKey))}]

ClientCall(p, method, args, flags) ==
  IF client.variant = "policy"
  THEN PolicyClientCall(p, method, args, flags)
  ELSE QueueClientCall(p, method, args, flags)

(***************************************************************************)
(* The queue: a task runs when fewer than the limit are running.           *)
(***************************************************************************)
CanRunUnbounded(running, limit) == TRUE

CanRunBelow(running, limit) == running + 1 < limit

CanRun(running, limit) == running < limit

tryRunTaskNewestFirst(waiting, running) ==
  IF waiting # <<>> /\ CanRun(Cardinality(running), client.concurrentRequestLimit)
  THEN [pending |-> SubSeq(waiting, 1, Len(waiting) - 1),
        inflight |-> running \cup {waiting[Len(waiting)]},
        started |-> <<waiting[Len(waiting)]>>]
  ELSE [pending |-> waiting, inflight |-> running, started |-> <<>>]

(* tryRunTask: the head of the waiting tasks is handed to Client.request *)
tryRunTask(waiting, running) ==
  IF waiting # <<>> /\ CanRun(Cardinality(running), client.concurrentRequestLimit)
  THEN [pending |-> Tail(waiting), inflight |-> running \cup {Head(waiting)},
        started |-> <<Head(waiting)>>]
  ELSE [pending |-> waiting, inflight |-> running, started |-> <<>>]

(* this._queue.push('request', task) for the tasks of push, and
   Client.request(task) at once for the tasks of direct *)
Submit(push, direct, running) ==
  LET q == tryRunTask(pending \o push, running \cup direct)
  IN  /\ pending' = q.pending
      /\ inflight' = q.inflight
      /\ sent' = sent \cup {q.started[i] : i \in 1..Len(q.started)} \cup direct


(***************************************************************************)
(* What a get* method makes of the settled resource request.               *)
(***************************************************************************)
isEmpty(v) ==
  v.t \in {"null", "object"} \/ (v.t = "list" /\ Len(v.videos) = 0)

RECURSIVE Published(_, _)
Published(videos, now) ==
  IF videos = <<>> THEN <<>>
  ELSE LET video == resolveIfScheduled(Head(videos), now)
       IN  (IF video = Null THEN <<>> ELSE <<video>>) \o Published(Tail(videos), now)

SkipScheduleCheck(flags) == GetFlag(flags, "skipScheduleCheck", client.skipScheduleCheck)

getVideoResultUnchecked(out, skip, now) == out

(* getVideo: a video that is there and checked is resolved only if scheduled *)
getVideoResult(out, skip, now) ==
  IF out.ok /\ out.v.t = "video" /\ ~skip
  THEN Resolved(resolveIfScheduled(out.v, now))
  ELSE out

(* getVideosByPlaylist: the videos that resolveIfScheduled keeps, in order *)
getVideosByPlaylistResultUnfiltered(out, skip, now) == out

PublishedDate(video) == video.published_at

(* the date a video is sorted by: schedule.starts_at if the video has a
   schedule and the date parses, else published_at *)
ReleaseDate(video) ==
  IF /\ video.schedule.has
     /\ video.schedule.value # "null"
     /\ video.schedule.value # "undefined"
     /\ ~DateParse(video.schedule.starts_at).nan
  THEN DateParse(video.schedule.starts_at).n
  ELSE video.published_at

(* videos.sort((a, b) => bDate - aDate): newest first, videos of one date in
   the order they came *)
RECURSIVE SortByReleaseDate(_)
SortByReleaseDate(videos) ==
  IF videos = <<>> THEN <<>>
  ELSE LET last == videos[Len(videos)]
           sorted == SortByReleaseDate(SubSeq(videos, 1, Len(videos) - 1))
           before == {i \in 1..Len(sorted) :
                        ReleaseDate(sorted[i]) >= ReleaseDate(last)}
       IN  SubSeq(sorted, 1, Cardinality(before)) \o <<last>> \o
           SubSeq(sorted, Cardinality(before) + 1, Len(sorted))

(* the second then of getVideosByPlaylist *)
sortByReleaseDateResult(out, sortByReleaseDate) ==
  IF out.ok /\ ~isEmpty(out.v) /\ sortByReleaseDate
  THEN Resolved(List(SortByReleaseDate(out.v.videos)))
  ELSE out

getVideosByPlaylistResult(out, skip, now) ==
  IF out.ok /\ ~isEmpty(out.v) /\ ~skip
  THEN Resolved(List(Published(out.v.videos, now)))
  ELSE out

(* getVideos: the same filter over the account's videos *)
getVideosResult(out, skip, now) ==
  IF out.ok /\ ~isEmpty(out.v) /\ ~skip
  THEN Resolved(List(Published(out.v.videos, now)))
  ELSE out

MethodResult(c, out, now) ==
  IF client.variant = "policy" THEN out
  ELSE IF c.method = "getVideo"
  THEN getVideoResult(out, SkipScheduleCheck(c.flags), now)
  ELSE IF c.method = "getVideosByPlaylist"
  THEN sortByReleaseDateResult(
         getVideosByPlaylistResult(out, SkipScheduleCheck(c.flags), now),
         GetFlag(c.flags, "sortByReleaseDate", FALSE))
  ELSE IF c.method = "getVideos"
  THEN getVideosResult(out, SkipScheduleCheck(c.flags), now)
  ELSE out

(* The times _.now() may give when a result is checked. *)
Clock(c, out) ==
  IF /\ c.phase = "resource" /\ out.ok /\ ~isEmpty(out.v)
     /\ c.method \in {"getVideo", "getVideosByPlaylist", "getVideos"}
     /\ client.variant # "policy" /\ ~SkipScheduleCheck(c.flags)
  THEN 1..MaxTime
  ELSE {0}

(***************************************************************************)
(* The transport answers a request in flight: Client.request settles it,   *)
(* the queue starts the next waiting task, and the promise of the caller's *)
(* token or resource request is settled.                                   *)
(***************************************************************************)
Settle ==
  \E r \in inflight :
    \E res \in Responses(r, upstream) :
      \E now \in Clock(calls[r.proc], request(res)) :
        LET out == IF client.variant = "policy"
                   THEN requestOfPolicyClient(res) ELSE request(res)
            c == calls[r.proc]
            q == tryRunTask(pending, inflight \ {r})
        IN  /\ pending' = q.pending
            /\ inflight' = q.inflight
            /\ sent' = sent \cup {q.started[i] : i \in 1..Len(q.started)}
            /\ issued' = IF IsTokenRequest(r) /\ out.ok THEN issued + 1 ELSE issued
            /\ calls' = [calls EXCEPT ![r.proc] =
                 IF c.phase = "token"
                 THEN [c EXCEPT !.phase = "tokenSettled", !.token = out]
                 ELSE [c EXCEPT !.phase = "settled", !.now = now,
                         !.status = res.statusCode,
                         !.outcome = MethodResult(c, out, now)]]
            /\ UNCHANGED <<provider, probe, client, orch, broadcasts, upstream>>

ResourceRequestWithFirstToken(p, c, accessToken) ==
  [Request(p, "GET", CMS_API_BASE_URL,
           Path(c.method, Get(c.args, "accountId", client.accountId),
                Arg(c.args, IdKey(c.method))),
           getBearerAuthorization(IssuedToken(<<1, 1>>)))
   EXCEPT !.call = c.seq]

(* .then(auth => this.makeRequest(...)) of a get* method: the resource
   request is pushed with the token the call has just got *)
ResourceRequest(p, c, accessToken) ==
  [Request(p, "GET", CMS_API_BASE_URL,
           Path(c.method, Get(c.args, "accountId", client.accountId),
                Arg(c.args, IdKey(c.method))),
           getBearerAuthorization(accessToken))
   EXCEPT !.call = c.seq]

Continue(p) ==
  LET c == calls[p]
  IN  /\ c.phase = "tokenSettled"
      /\ IF ~c.token.ok
         THEN /\ calls' = [calls EXCEPT ![p] =
                   [c EXCEPT !.phase = "settled", !.outcome = c.token]]
              /\ UNCHANGED <<pending, inflight, sent>>
         ELSE IF c.token.v.t = "null"
         THEN /\ calls' = [calls EXCEPT ![p] =
                   [c EXCEPT !.phase = "settled",
                      !.outcome = Rejected(Error("TypeError: access_token", ""))]]
              /\ UNCHANGED <<pending, inflight, sent>>
         ELSE /\ calls' = [calls EXCEPT ![p] = [c EXCEPT !.phase = "resource"]]
              /\ Submit(<<ResourceRequest(p, c,
                             IF "access_token" \in DOMAIN c.token.v
                             THEN c.token.v.access_token
                             ELSE GivenToken(Undefined))>>, {}, inflight)
      /\ UNCHANGED <<provider, probe, client, orch, broadcasts, issued, upstream>>


(***************************************************************************)
(* The bus side: a query {spec, object} to a handler, the channel that     *)
(* getChannel resolves to, and the replies to the setItemSpec commands.    *)
(* A spec is [channel, type, id, playlist, video, flags]: playlist and     *)
(* video are the objects {id, uri} and {id} with the keys they have, flags *)
(* holds skipScheduleCheck when the spec has it.                           *)
(***************************************************************************)
CatalogSpec(type, id, playlist, video, flags) ==
  [video |-> video, id |-> id, type |-> type, flags |-> flags,
   playlist |-> playlist, channel |-> "fake-channel"]

NoSpec == CatalogSpec("none", Undefined, NoKeys, NoKeys, NoFlags)

(* A channel: its id and its secrets.brightcove, with the keys it has. *)
Channel(secrets) == [id |-> "fake-channel", secrets |-> secrets]

(* The object of a query: the partial entity the collection starts from. *)
NoObject == [extra |-> Undefined, related |-> Undefined]

IsSettled(outcome) == outcome.v.t # "unsettled"

IdleOrch ==
  [video |-> Null, id |-> Undefined, threw |-> FALSE, channel |-> Channel(NoKeys),
   kind |-> "none", pc |-> "idle", spec |-> NoSpec,
   object |-> NoObject, argFlags |-> NoFlags, creds |-> NoKeys, collection |-> Null,
   cmds |-> <<>>, values |-> <<>>, done |-> <<>>, all |-> Unsettled,
   result |-> Unsettled, delivered |-> FALSE]

(* A handler or an orchestrator throws, or its promise is rejected or resolved *)
Finish(o, outcome) == [o EXCEPT !.pc = "settled", !.result = outcome]

EventWithoutSpec(spec, error, message) ==
  [message |-> message, code |-> error.code, spec |-> NoSpec, error |-> error,
   level |-> "error"]

(* bus.broadcast({level: 'error'}, {spec, error, code, message}) *)
Event(spec, error, message) ==
  [message |-> message, code |-> error.code, spec |-> spec, error |-> error,
   level |-> "error"]

NotFound(message, id, code) ==
  [t |-> "error", message |-> message, arg |-> id, code |-> code, status |-> 0]

(* client.get*(params) called by caller p, whose orchestrator goes on at pc:
   a call that throws rejects the orchestrator's promise *)
Invoke(p, o, method, args, flags, pc) ==
  LET started == ClientCall(p, method, args, flags)
  IN  /\ calls' = [calls EXCEPT ![p] = started.call]
      /\ Submit(started.push, started.direct, inflight)
      /\ orch' = [orch EXCEPT ![p] =
           IF started.call.threw
           THEN Finish(o, started.call.outcome)
           ELSE [o EXCEPT !.pc = pc]]

(***************************************************************************)
(* createPlaylistHandler: the handler of a brightcove-playlist query.      *)
(***************************************************************************)
PlaylistHandler(p) ==
  LET o == orch[p]
      playlistId == Arg(o.spec.playlist, "uri")
  IN  /\ o.kind = "playlist" /\ o.pc = "start"
      /\ orch' = [orch EXCEPT ![p] =
           IF playlistId = Undefined \/ playlistId = ""
           THEN [Finish(o, Rejected(Error(
                   "brightcove-playlist-provider spec.playlist.id String is required", "")))
                 EXCEPT !.threw = TRUE, !.delivered = TRUE]
           ELSE [o EXCEPT !.pc = "channel", !.id = playlistId]]
      /\ UNCHANGED <<provider, probe, client, pending, inflight, calls, broadcasts, sent, issued,
                     upstream>>

(***************************************************************************)
(* fetchBrightcovePlaylist.                                                *)
(***************************************************************************)
CredKeys == {"clientId", "clientSecret", "accountId"}

(* the credentials the channel's secrets override: the keys they have *)
PlaylistCreds(secrets) ==
  [k \in {key \in CredKeys : Has(secrets, key)} |-> secrets[k]]

(* getChannel has resolved: the orchestrator starts with getPlaylist *)
PlaylistStart(p) ==
  LET o == orch[p]
      creds == PlaylistCreds(o.channel.secrets)
  IN  /\ o.kind = "playlist" /\ o.pc = "channel"
      /\ Invoke(p, [o EXCEPT !.creds = creds], "getPlaylist",
                Assign([k \in {"playlistId"} |-> o.id], creds), NoFlags,
                "getPlaylist")
      /\ UNCHANGED <<provider, probe, client, broadcasts, issued, upstream>>

(* default-collection-transform *)
collectionTransform(spec, playlist) ==
  [id |-> <<"res-brightcove-playlist-",
            IF "id" \in DOMAIN playlist THEN playlist.id ELSE Undefined>>,
   images |-> <<>>,
   description |->
     IF "description" \in DOMAIN playlist THEN playlist.description ELSE Undefined,
   title |-> IF "name" \in DOMAIN playlist THEN playlist.name ELSE Undefined]

(* Object.assign({}, collection, transform(spec, playlist)): what the object
   has besides the transform's fields stays *)
Collection(object, transformed) ==
  [t |-> "collection", id |-> transformed.id, images |-> transformed.images,
   description |-> transformed.description, extra |-> object.extra,
   title |-> transformed.title,
   relationships |-> [data |-> <<>>, related |-> object.related,
                      hasEntities |-> FALSE]]

BroadcastsAfterNone(log, event) == log

BroadcastsAfter(log, event) == Append(log, event)

(* .then(playlist => ...): the videos of a playlist that is there; a
   broadcast and a rejection for one that is not *)
PlaylistFetched(p) ==
  LET o == orch[p]
      out == calls[p].outcome
      error == NotFound("Playlist not found for id", o.id, "PLAYLIST_NOT_FOUND")
  IN  /\ o.kind = "playlist" /\ o.pc = "getPlaylist"
      /\ calls[p].phase = "settled"
      /\ IF ~out.ok
         THEN /\ orch' = [orch EXCEPT ![p] = Finish(o, out)]
              /\ UNCHANGED <<calls, pending, inflight, sent, broadcasts>>
         ELSE IF out.v # Null
         THEN /\ Invoke(p, [o EXCEPT !.collection =
                              Collection(o.object, collectionTransform(o.spec, out.v))],
                        "getVideosByPlaylist",
                        Assign([k \in {"playlistId"} |-> o.id], o.creds),
                        [k \in {"skipScheduleCheck"} |->
                           GetFlag(o.argFlags, "skipScheduleCheck", FALSE)],
                        "getVideos")
              /\ UNCHANGED broadcasts
         ELSE /\ broadcasts' =
                   BroadcastsAfter(broadcasts, Event(o.spec, error, "playlist not found"))
              /\ orch' = [orch EXCEPT ![p] = Finish(o, Rejected(error))]
              /\ UNCHANGED <<calls, pending, inflight, sent>>
      /\ UNCHANGED <<provider, probe, client, issued, upstream>>


(* videos.sort((a, b) => new Date(b.published_at) - new Date(a.published_at)):
   newest first, videos of one date in the order they came *)
RECURSIVE InsertNewestFirst(_, _)
InsertNewestFirst(sorted, video) ==
  IF sorted = <<>> THEN <<video>>
  ELSE IF Head(sorted).published_at >= video.published_at
  THEN <<Head(sorted)>> \o InsertNewestFirst(Tail(sorted), video)
  ELSE <<video>> \o sorted

AsTheyCame(videos) == videos

RECURSIVE SortNewestFirst(_)
SortNewestFirst(videos) ==
  IF videos = <<>> THEN <<>>
  ELSE InsertNewestFirst(SortNewestFirst(SubSeq(videos, 1, Len(videos) - 1)),
                         videos[Len(videos)])

(* the spec of one video of the playlist; id only for a video that has one *)
ChildSpec(channel, video) ==
  [video |-> video,
   id |-> IF video.id # Undefined /\ video.id # ""
          THEN <<"spec-brightcove-video-", video.id>> ELSE <<>>,
   type |-> "videoSpec", channel |-> channel.id, source |-> "brightcove-video"]

(* A command sent with bus.sendCommand, and the slot Promise.all keeps for
   its result. *)
EmptySlot == [type |-> <<>>, filled |-> FALSE, resource |-> Undefined]

Command(spec) == [spec |-> spec, state |-> "pending", reply |-> EmptySlot]

Slot(reply) == [type |-> reply.type, filled |-> TRUE, resource |-> reply.resource]

(* The replies of the catalog to setItemSpec: the resource of the spec, the
   type with or without the ending Spec. *)
CommandReplies(spec) ==
  {[type |-> type, resource |-> spec.video.id] :
     type \in {<<"video", "Spec">>, <<"collection">>}}

(* .then(videos => Promise.all(videos.sort(...).map(sendCommand))) *)
VideosFetched(p) ==
  LET o == orch[p]
      out == calls[p].outcome
      sorted == SortNewestFirst(out.v.videos)
  IN  /\ o.kind = "playlist" /\ o.pc = "getVideos"
      /\ calls[p].phase = "settled"
      /\ orch' = [orch EXCEPT ![p] =
           IF ~out.ok
           THEN Finish(o, out)
           ELSE IF ~isEmpty(out.v)
           THEN [o EXCEPT !.pc = "commands",
                   !.cmds = [i \in 1..Len(sorted) |->
                               Command(ChildSpec(o.channel, sorted[i]))],
                   !.values = [i \in 1..Len(sorted) |-> EmptySlot]]
           ELSE [o EXCEPT !.pc = "commands",
                   !.all = Resolved([t |-> "specs", specs |-> <<>>])]]
      /\ UNCHANGED <<provider, probe, client, pending, inflight, calls, broadcasts, sent, issued,
                     upstream>>

(* Promise.all keeps the result of the i-th promise at index i *)
PromiseAllPutFirstFree(values, i, reply) ==
  LET free == CHOOSE k \in 1..Len(values) :
                /\ ~values[k].filled
                /\ \A j \in 1..(k - 1) : values[j].filled
  IN  [values EXCEPT ![free] = Slot(reply)]

PromiseAllPut(values, i, reply) == [values EXCEPT ![i] = Slot(reply)]

AllFilled(values) == \A i \in 1..Len(values) : values[i].filled

(* the catalog resolves the i-th command: Promise.all is resolved by the
   last result, its value the results in the order of the commands *)
CommandResolves(p) ==
  \E i \in 1..Len(orch[p].cmds) :
    \E reply \in CommandReplies(orch[p].cmds[i].spec) :
      LET o == orch[p]
          values == PromiseAllPut(o.values, i, reply)
      IN  /\ o.cmds[i].state = "pending"
          /\ orch' = [orch EXCEPT ![p] =
               [o EXCEPT !.cmds[i].state = "resolved",
                  !.cmds[i].reply = Slot(reply), !.values = values,
                  !.done = Append(o.done, i),
                  !.all = IF ~IsSettled(o.all) /\ AllFilled(values)
                          THEN Resolved([t |-> "specs", specs |-> values])
                          ELSE o.all]]
          /\ UNCHANGED <<provider, probe, client, pending, inflight, calls, broadcasts, sent,
                         issued, upstream>>

(* the catalog rejects the i-th command: the first rejection rejects
   Promise.all *)
CommandRejects(p) ==
  \E i \in 1..Len(orch[p].cmds) :
    LET o == orch[p]
    IN  /\ o.cmds[i].state = "pending"
        /\ orch' = [orch EXCEPT ![p] =
             [o EXCEPT !.cmds[i].state = "rejected", !.done = Append(o.done, i),
                !.all = IF ~IsSettled(o.all)
                        THEN Rejected(Error("setItemSpec failed", o.cmds[i].spec.video.id))
                        ELSE o.all]]
        /\ UNCHANGED <<provider, probe, client, pending, inflight, calls, broadcasts, sent,
                       issued, upstream>>

(* spec.type.replace(/Spec$/, '') *)
WithoutSpec(type) ==
  IF type # <<>> /\ type[Len(type)] = "Spec" THEN SubSeq(type, 1, Len(type) - 1) ELSE type

Entities(specs) ==
  [i \in 1..Len(specs) |-> [id |-> specs[i].resource, type |-> WithoutSpec(specs[i].type)]]

Unassembled(collection, specs) == collection

(* .then(specs => ...): the collection with its relationships.entities *)
Assembled(collection, specs) ==
  [collection EXCEPT !.relationships.hasEntities = TRUE,
                     !.relationships.data = Entities(specs)]

AssembledOnRejection(o) == Resolved(Assembled(o.collection, o.values))

PlaylistResult(o) ==
  IF o.all.ok THEN Resolved(Assembled(o.collection, o.all.v.specs)) ELSE o.all

PlaylistAssembled(p) ==
  LET o == orch[p]
  IN  /\ o.kind = "playlist" /\ o.pc = "commands"
      /\ IsSettled(o.all)
      /\ orch' = [orch EXCEPT ![p] = Finish(o, PlaylistResult(o))]
      /\ UNCHANGED <<provider, probe, client, pending, inflight, calls, broadcasts, sent, issued,
                     upstream>>

(* the promise of a handler settles for the one who sent the query *)
Deliver(p) ==
  /\ orch[p].pc = "settled" /\ ~orch[p].delivered
  /\ orch' = [orch EXCEPT ![p].delivered = TRUE]
  /\ UNCHANGED <<provider, probe, client, pending, inflight, calls, broadcasts, sent, issued,
                 upstream>>


(***************************************************************************)
(* default-video-transform.                                                *)
(***************************************************************************)
HTTPS_MATCHER(scheme) == scheme = "https"
MP4_MATCHER(container) == container \in {"MP4", "mp4"}
TYPE_MATCHER(type) == type = "application/x-mpegURL"

RECURSIVE SelectHttps(_)
SelectHttps(items) ==
  IF items = <<>> THEN <<>>
  ELSE (IF HTTPS_MATCHER(Head(items).scheme) THEN <<Head(items)>> ELSE <<>>)
       \o SelectHttps(Tail(items))

FormatImage(kind, image) ==
  [width |-> image.width, height |-> image.height, url |-> image.src,
   label |-> [width |-> image.width, height |-> image.height, kind |-> kind]]

formatImages(video) ==
  LET poster == SelectHttps(video.images.poster)
      thumbnail == SelectHttps(video.images.thumbnail)
  IN  [i \in 1..Len(poster) |-> FormatImage("poster", poster[i])] \o
      [i \in 1..Len(thumbnail) |-> FormatImage("thumbnail", thumbnail[i])]

getMimeType(source) ==
  IF source.type # Undefined /\ source.type # "" THEN source.type
  ELSE IF MP4_MATCHER(source.container) THEN "video/mp4"
  ELSE ""

(* index is the place among the sources kept, from 0 *)
getLabel(source, index) ==
  IF MP4_MATCHER(source.container)
  THEN [mp4 |-> <<source.width, source.height>>]
  ELSE IF TYPE_MATCHER(source.type) THEN [text |-> "hls"]
  ELSE IF source.asset_id # Undefined /\ source.asset_id # ""
  THEN [text |-> source.asset_id]
  ELSE [index |-> index]

AsGiven(x) == x

(* x || 0 of a width, a height or a rate: one that is absent is written -1 *)
OrZero(x) == IF x < 0 THEN 0 ELSE x

formatSources(sources) ==
  LET kept == SelectHttps(sources)
  IN  [i \in 1..Len(kept) |->
         [width |-> OrZero(kept[i].width), height |-> OrZero(kept[i].height),
          container |-> kept[i].container, url |-> kept[i].src,
          label |-> getLabel(kept[i], i - 1),
          mimeType |-> getMimeType(kept[i]),
          maxBitrate |-> OrZero(kept[i].encoding_rate)]]

videoTransform(spec, video, sources) ==
  [t |-> "videoEntity", id |-> <<"res-brightcove-video-", video.id>>,
   images |-> formatImages(video), sources |-> formatSources(sources.sources),
   releaseDate |-> video.published_at]

(***************************************************************************)
(* createVideoHandler: the handler of a brightcove-video query.            *)
(***************************************************************************)
VideoHandler(p) ==
  LET o == orch[p]
      videoId == Arg(o.spec.video, "id")
  IN  /\ o.kind = "video" /\ o.pc = "start"
      /\ orch' = [orch EXCEPT ![p] =
           IF videoId = Undefined \/ videoId = ""
           THEN [Finish(o, Rejected(Error(
                   "brightcove-video-provider spec.video.id String is required", "")))
                 EXCEPT !.threw = TRUE, !.delivered = TRUE]
           ELSE [o EXCEPT !.pc = "channel", !.id = videoId]]
      /\ UNCHANGED <<provider, probe, client, pending, inflight, calls, broadcasts, sent, issued,
                     upstream>>

(***************************************************************************)
(* fetchBrightcoveVideo.                                                   *)
(***************************************************************************)
(* the credentials the channel's secrets override: the keys whose value is
   truthy *)
VideoCreds(secrets) ==
  [k \in {key \in CredKeys : Arg(secrets, key) # Undefined /\ Arg(secrets, key) # ""}
     |-> secrets[k]]

(* getChannel has resolved: the orchestrator starts with getVideo *)
VideoStart(p) ==
  LET o == orch[p]
      creds == VideoCreds(o.channel.secrets)
  IN  /\ o.kind = "video" /\ o.pc = "channel"
      /\ Invoke(p, [o EXCEPT !.creds = creds], "getVideo",
                Assign([k \in {"videoId"} |-> o.id], creds), NoFlags, "getVideo")
      /\ UNCHANGED <<provider, probe, client, broadcasts, issued, upstream>>

VideoFetchedWithSources(p) ==
  LET o == orch[p]
      error == NotFound("Video not found for id", o.id, "VIDEO_NOT_FOUND")
      started == ClientCall(p, "getVideoSources",
                            Assign([k \in {"videoId"} |-> o.id], o.creds), NoFlags)
  IN  /\ o.kind = "video" /\ o.pc = "getVideo"
      /\ calls[p].phase = "settled"
      /\ calls' = [calls EXCEPT ![p] = started.call]
      /\ Submit(started.push, started.direct, inflight)
      /\ broadcasts' =
           BroadcastsAfter(broadcasts, Event(o.spec, error, "video not found"))
      /\ orch' = [orch EXCEPT ![p] = Finish(o, Rejected(error))]
      /\ UNCHANGED <<provider, probe, client, issued, upstream>>

(* .then(video => ...): the sources of a video that is there; a broadcast
   and a rejection for one that is not *)
VideoFetched(p) ==
  LET o == orch[p]
      out == calls[p].outcome
      error == NotFound("Video not found for id", o.id, "VIDEO_NOT_FOUND")
  IN  /\ o.kind = "video" /\ o.pc = "getVideo"
      /\ calls[p].phase = "settled"
      /\ IF ~out.ok
         THEN /\ orch' = [orch EXCEPT ![p] = Finish(o, out)]
              /\ UNCHANGED <<calls, pending, inflight, sent, broadcasts>>
         ELSE IF out.v # Null
         THEN /\ Invoke(p, [o EXCEPT !.video = out.v], "getVideoSources",
                        Assign([k \in {"videoId"} |-> o.id], o.creds), NoFlags,
                        "getSources")
              /\ UNCHANGED broadcasts
         ELSE /\ broadcasts' =
                   BroadcastsAfter(broadcasts, Event(o.spec, error, "video not found"))
              /\ orch' = [orch EXCEPT ![p] = Finish(o, Rejected(error))]
              /\ UNCHANGED <<calls, pending, inflight, sent>>
      /\ UNCHANGED <<provider, probe, client, issued, upstream>>

(* Promise.join(video, sources, transform): the entity, or the rejection of
   getVideoSources, or the TypeError of a transform without sources *)
SourcesFetched(p) ==
  LET o == orch[p]
      out == calls[p].outcome
  IN  /\ o.kind = "video" /\ o.pc = "getSources"
      /\ calls[p].phase = "settled"
      /\ orch' = [orch EXCEPT ![p] =
           Finish(o, IF ~out.ok THEN out
                     ELSE IF out.v.t = "sources" /\ o.video.t = "video"
                     THEN Resolved(videoTransform(o.spec, o.video, out.v))
                     ELSE Rejected(Error("TypeError: transform", "")))]
      /\ UNCHANGED <<provider, probe, client, pending, inflight, calls, broadcasts, sent, issued,
                     upstream>>


(***************************************************************************)
(* What initialize and the static functions leave when they are not used.  *)
(***************************************************************************)
Options(bus, clientId, clientSecret, accountId, limit, collection, video) ==
  [clientId |-> clientId, clientSecret |-> clientSecret, accountId |-> accountId,
   concurrentRequestLimit |-> limit, collectionTransform |-> collection,
   videoTransform |-> video, bus |-> bus]

NoOptions == Options(FALSE, Undefined, Undefined, Undefined, 0, Undefined, Undefined)

NoResult == [client |-> Null, name |-> "none"]

(* initialize(options) before it is called *)
Uninitialized(options) ==
  [result |-> NoResult, state |-> "start", bus |-> <<>>, options |-> options,
   created |-> <<>>]

NoProvider == [Uninitialized(NoOptions) EXCEPT !.state = "none"]

NoProbe == [fn |-> "none"]

(***************************************************************************)
(* Callers of the client itself: NumCalls logical calls on one Client.     *)
(***************************************************************************)
Methods == <<"getVideo", "getPlaylist", "getVideosByPlaylist", "getVideoSources">>

(* the call of caller p: the callers take the methods in turn *)
MethodOf(p) == Methods[((p - 1) % Len(Methods)) + 1]

CallArgs(method) == {[k \in {IdKey(method)} |-> "12345"]}

DirectCall(p) ==
  \E method \in {MethodOf(p)} :
    \E args \in CallArgs(method) :
      \E flags \in {NoFlags} :
        LET started == ClientCall(p, method, args, flags)
        IN  /\ orch[p].kind = "none"
            /\ calls[p].phase = "idle"
            /\ calls' = [calls EXCEPT ![p] = started.call]
            /\ Submit(started.push, started.direct, inflight)
            /\ UNCHANGED <<provider, probe, client, orch, broadcasts, issued, upstream>>

Account(videos, schedule) == [schedule |-> schedule, videos |-> videos]

Init ==
  /\ client \in {Constructor("queue", "foo", "foo", "foo", Undefined, limit) :
                   limit \in 0..MaxLimit}
  /\ pending = <<>>
  /\ inflight = {}
  /\ calls = [p \in Procs |-> IdleCall]
  /\ orch = [p \in Procs |-> IdleOrch]
  /\ broadcasts = <<>>
  /\ sent = {}
  /\ issued = 0
  /\ upstream = Account(<<Video("V1", 2, Schedule(Iso(2), Unparsable))>>,
                        Schedule(Iso(1), Iso(2)))
  /\ provider = NoProvider
  /\ probe = NoProbe

Next ==
  \/ \E p \in Procs : DirectCall(p)
  \/ \E p \in Procs : Continue(p)
  \/ Settle

Spec == Init /\ [][Next]_vars

(* C1: the requests handed to the transport and not yet settled are never
   more than the concurrency limit of the client, whichever calls they
   belong to. *)
C1_ConcurrencyCeiling == Cardinality(inflight) <= client.concurrentRequestLimit

(* the limit is reached by requests of different calls while another waits *)
C1_Witness ==
  /\ client.concurrentRequestLimit = MaxLimit
  /\ Cardinality(inflight) = MaxLimit
  /\ Cardinality({r.proc : r \in inflight}) > 1
  /\ pending # <<>>


(***************************************************************************)
(* A query to the playlist handler, or a call of fetchBrightcovePlaylist   *)
(* itself with skipScheduleCheck.                                          *)
(***************************************************************************)
Keys(id, uri) ==
  [k \in (IF id = Undefined THEN {} ELSE {"id"}) \cup
         (IF uri = Undefined THEN {} ELSE {"uri"}) |->
     IF k = "id" THEN id ELSE uri]

(* channel.secrets.brightcove: every credential is missing, empty or the
   channel's own; a policy key comes alone *)
ChannelOwn ==
  [clientId |-> "channel-id", clientSecret |-> "channel-secret",
   policyKey |-> "fake-policy-key", accountId |-> "channel-account"]

SecretsOver(keys) ==
  UNION {{[k \in present |-> IF k \in empty THEN "" ELSE ChannelOwn[k]] :
            empty \in SUBSET present} : present \in SUBSET keys}

PlaylistSpecs ==
  {CatalogSpec("collectionSpec", "spec-1", Keys(id, uri), NoKeys, NoFlags) :
     id \in {Undefined, "12345"}, uri \in {Undefined, "", "12345"}}

Query(kind, spec) ==
  [IdleOrch EXCEPT !.kind = kind, !.pc = "start", !.spec = spec,
     !.object = [extra |-> "kept", related |-> "R"]]

OrchestratorCall(kind, spec, id, flags) ==
  [Query(kind, spec) EXCEPT !.pc = "channel", !.id = id, !.argFlags = flags]

PlaylistEntries ==
  {Query("playlist", spec) : spec \in PlaylistSpecs} \cup
  {OrchestratorCall("playlist",
     CatalogSpec("collectionSpec", "spec-1", Keys("12345", "12345"), NoKeys, NoFlags),
     "12345", [k \in {"skipScheduleCheck"} |-> TRUE])}

InitPlaylist ==
  /\ client = Constructor("queue", "foo", "foo", "foo", Undefined, 0)
  /\ pending = <<>>
  /\ inflight = {}
  /\ calls = [p \in Procs |-> IdleCall]
  /\ \E entry \in PlaylistEntries :
       \E secrets \in {NoKeys} \cup SecretsOver({"accountId"}) \cup
                       {[k \in CredKeys |-> ChannelOwn[k]]} :
         orch = [p \in Procs |->
                   IF p = 1 THEN [entry EXCEPT !.channel = Channel(secrets)]
                   ELSE IdleOrch]
  /\ broadcasts = <<>>
  /\ sent = {}
  /\ issued = 0
  /\ \E videos \in VideoLists : upstream = Account(videos, NoSchedule)
  /\ provider = NoProvider
  /\ probe = NoProbe

NextPlaylist ==
  \/ \E p \in Procs : PlaylistHandler(p)
  \/ \E p \in Procs : PlaylistStart(p)
  \/ \E p \in Procs : Continue(p)
  \/ Settle
  \/ \E p \in Procs : PlaylistFetched(p)
  \/ \E p \in Procs : VideosFetched(p)
  \/ \E p \in Procs : CommandResolves(p)
  \/ \E p \in Procs : CommandRejects(p)
  \/ \E p \in Procs : PlaylistAssembled(p)
  \/ \E p \in Procs : Deliver(p)

SpecPlaylist == InitPlaylist /\ [][NextPlaylist]_vars


(***************************************************************************)
(* A query to the video handler, of a client of either kind.               *)
(***************************************************************************)
VideoSpecs ==
  {CatalogSpec("videoSpec", "spec-2", NoKeys, Keys(id, Undefined), flags) :
     id \in {Undefined, "", "12345"},
     flags \in {NoFlags, [k \in {"skipScheduleCheck"} |-> TRUE]}}

InitVideo ==
  /\ client \in {Constructor("queue", "foo", "foo", "foo", Undefined, 0),
                 Constructor("policy", "foo", "foo", "foo", "foo", 0)}
  /\ pending = <<>>
  /\ inflight = {}
  /\ calls = [p \in Procs |-> IdleCall]
  /\ \E spec \in VideoSpecs :
       \E secrets \in SecretsOver(CredKeys) \cup SecretsOver({"policyKey"}) :
         orch = [p \in Procs |->
                   IF p = 1
                   THEN [Query("video", spec) EXCEPT !.channel = Channel(secrets)]
                   ELSE IdleOrch]
  /\ broadcasts = <<>>
  /\ sent = {}
  /\ issued = 0
  /\ \E schedule \in Schedules : upstream = Account(<<>>, schedule)
  /\ provider = NoProvider
  /\ probe = NoProbe

NextVideo ==
  \/ \E p \in Procs : VideoHandler(p)
  \/ \E p \in Procs : VideoStart(p)
  \/ \E p \in Procs : Continue(p)
  \/ Settle
  \/ \E p \in Procs : VideoFetched(p)
  \/ \E p \in Procs : SourcesFetched(p)
  \/ \E p \in Procs : Deliver(p)

SpecVideo == InitVideo /\ [][NextVideo]_vars


(***************************************************************************)
(* Properties of the playlist fetch.                                       *)
(***************************************************************************)

(* C2: when getPlaylist resolves to absence on a 404, the fetch is rejected
   with 'Playlist not found for id "<playlistId>"' and the code
   PLAYLIST_NOT_FOUND, and one error broadcast with that code, the message
   'playlist not found' and the caller's spec is the only broadcast; none is
   published before, and the rejection is delivered only after it. *)
C2_PlaylistNotFound ==
  \A p \in Procs :
    LET o == orch[p]
        error == [t |-> "error", message |-> "Playlist not found for id",
                  arg |-> o.id, code |-> "PLAYLIST_NOT_FOUND", status |-> 0]
    IN  (/\ o.kind = "playlist" /\ calls[p].method = "getPlaylist"
         /\ calls[p].phase = "settled" /\ calls[p].status = 404)
        => IF o.pc = "settled"
           THEN /\ o.result = Rejected(error)
                /\ broadcasts = <<[message |-> "playlist not found",
                                   code |-> "PLAYLIST_NOT_FOUND", spec |-> o.spec,
                                   error |-> error, level |-> "error"]>>
                /\ o.spec \in PlaylistSpecs
           ELSE broadcasts = <<>> /\ ~o.delivered

(* the rejection of a playlist that is not there has been delivered *)
C2_Witness ==
  \E p \in Procs :
    /\ orch[p].kind = "playlist" /\ orch[p].delivered /\ ~orch[p].threw
    /\ calls[p].method = "getPlaylist" /\ calls[p].status = 404
    /\ orch[p].result.v.code = "PLAYLIST_NOT_FOUND"
    /\ Len(broadcasts) = 1

(* C3: in a playlist fetch that succeeds, relationships.entities.data has one
   entry for every command sent, the i-th built from the result of the i-th
   command (its resource as id, its type without an ending Spec), in whatever
   order the commands settle. *)
C3_EntitiesInSubmissionOrder ==
  \A p \in Procs :
    LET o == orch[p]
    IN  (o.kind = "playlist" /\ o.pc = "settled" /\ o.result.ok)
        => LET data == o.result.v.relationships.data
           IN  /\ o.result.v.relationships.hasEntities
               /\ Len(data) = Len(o.cmds)
               /\ \A i \in 1..Len(o.cmds) :
                    /\ o.cmds[i].state = "resolved"
                    /\ data[i].id = o.cmds[i].reply.resource
                    /\ data[i].type =
                         (IF o.cmds[i].reply.type = <<"video", "Spec">>
                          THEN <<"video">> ELSE o.cmds[i].reply.type)

(* two commands settle in the order opposite to the one they were sent in,
   with results that differ *)
C3_Witness ==
  \E p \in Procs :
    /\ orch[p].kind = "playlist" /\ orch[p].pc = "settled" /\ orch[p].result.ok
    /\ orch[p].done = <<2, 1>>
    /\ orch[p].cmds[1].reply.resource # orch[p].cmds[2].reply.resource
    /\ orch[p].cmds[1].reply.type = <<"video", "Spec">>
    /\ orch[p].cmds[2].reply.type = <<"collection">>

(* C10: if a command of the fan-out fails, the playlist fetch is rejected
   with a command's failure and no collection is returned, whatever the
   other commands do and in whatever order. *)
C10_ChildFailureRejectsAll ==
  \A p \in Procs :
    LET o == orch[p]
    IN  (/\ o.kind = "playlist" /\ o.pc = "settled"
         /\ \E i \in 1..Len(o.cmds) : o.cmds[i].state = "rejected")
        => /\ ~o.result.ok
           /\ o.result.v.t = "error"
           /\ o.result.v.message = "setItemSpec failed"
           /\ \E i \in 1..Len(o.cmds) :
                o.cmds[i].state = "rejected" /\ o.result.v.arg = o.cmds[i].spec.video.id

(* a command fails after another has resolved, and the rejection is
   delivered *)
C10_Witness ==
  \E p \in Procs :
    /\ orch[p].kind = "playlist" /\ orch[p].delivered
    /\ Len(orch[p].cmds) = 2
    /\ orch[p].cmds[orch[p].done[1]].state = "resolved"
    /\ orch[p].cmds[orch[p].done[2]].state = "rejected"

(* C7: a query whose spec.playlist.id is a string that is not empty makes
   the handler throw no validation error and ask the upstream for the
   playlist of that id. *)
C7_PlaylistIdAccepted ==
  \A p \in Procs :
    LET o == orch[p]
    IN  (/\ o.kind = "playlist"
         /\ "id" \in DOMAIN o.spec.playlist /\ o.spec.playlist.id # ""
         /\ o.pc \notin {"start", "channel"})
        => /\ ~o.threw
           /\ o.id = o.spec.playlist.id
           /\ \A r \in sent :
                (r.proc = p /\ ~IsTokenRequest(r) /\ Len(r.path) = 4)
                => r.path[3] = "playlists" /\ r.path[4] = o.spec.playlist.id


(***************************************************************************)
(* Properties of the video fetch.                                          *)
(***************************************************************************)

(* C4: when getVideo resolves to absence, the fetch is rejected with
   'Video not found for id "<videoId>"' and the code VIDEO_NOT_FOUND, and one
   error broadcast with that code, the message 'video not found' and the
   caller's spec is the only broadcast. *)
C4_VideoNotFound ==
  \A p \in Procs :
    LET o == orch[p]
        error == [t |-> "error", message |-> "Video not found for id",
                  arg |-> o.spec.video.id, code |-> "VIDEO_NOT_FOUND",
                  status |-> 0]
    IN  (/\ o.kind = "video" /\ calls[p].method = "getVideo"
         /\ calls[p].phase = "settled" /\ calls[p].outcome = Resolved(Null))
        => IF o.pc = "settled"
           THEN /\ o.result = Rejected(error)
                /\ broadcasts = <<[message |-> "video not found",
                                   code |-> "VIDEO_NOT_FOUND", spec |-> o.spec,
                                   error |-> error, level |-> "error"]>>
                /\ o.spec \in VideoSpecs
           ELSE broadcasts = <<>> /\ ~o.delivered

(* the upstream has answered 404 and the rejection has been delivered *)
C4_Witness ==
  \E p \in Procs :
    /\ orch[p].kind = "video" /\ orch[p].delivered /\ ~orch[p].threw
    /\ calls[p].method = "getVideo" /\ calls[p].status = 404
    /\ orch[p].result.v.code = "VIDEO_NOT_FOUND"
    /\ Len(broadcasts) = 1

(* C5: when the schedule is checked, a video that the upstream returns
   with status 200 and that the check judges not visible makes getVideo
   resolve to what a 404 resolves to, and the fetch ends as for a video that
   is not there: the rejection, one VIDEO_NOT_FOUND broadcast, no entity. *)
C5_HiddenVideoIsAbsent ==
  \A p \in Procs :
    LET o == orch[p]
        c == calls[p]
    IN  (/\ o.kind = "video" /\ client.variant = "queue"
         /\ c.method = "getVideo" /\ c.phase = "settled" /\ c.status = 200
         /\ ~GetFlag(c.flags, "skipScheduleCheck", FALSE)
         /\ resolveIfScheduled(Video(c.args.videoId, 1, upstream.schedule), c.now) = Null)
        => /\ c.outcome = request(Response(404, HTML_TYPE, NoBody))
           /\ o.pc \in {"getVideo", "settled"}
           /\ o.pc = "settled"
                => /\ ~o.result.ok
                   /\ o.result.v.message = "Video not found for id"
                   /\ o.result.v.arg = c.args.videoId
                   /\ o.result.v.code = "VIDEO_NOT_FOUND"
                   /\ Len(broadcasts) = 1
                   /\ broadcasts[1].code = "VIDEO_NOT_FOUND"

(* a video with a schedule, returned with status 200, has ended as not
   found *)
C5_Witness ==
  \E p \in Procs :
    /\ orch[p].kind = "video" /\ orch[p].delivered /\ client.variant = "queue"
    /\ calls[p].method = "getVideo" /\ calls[p].status = 200
    /\ upstream.schedule.has
    /\ calls[p].outcome = Resolved(Null)
    /\ orch[p].result.v.code = "VIDEO_NOT_FOUND"

(* C6: a query whose spec has skipScheduleCheck: true, for a video that the
   upstream returns and that the schedule check would hide, is resolved with
   the entity and no VIDEO_NOT_FOUND broadcast is published. *)
C6_SkipScheduleCheckHonoured ==
  \A p \in Procs :
    LET o == orch[p]
    IN  (/\ o.kind = "video" /\ client.variant = "queue"
         /\ GetFlag(o.spec.flags, "skipScheduleCheck", FALSE)
         /\ \E r \in sent : r.proc = p /\ ~IsTokenRequest(r) /\ Len(r.path) = 4
         /\ calls[p].phase = "settled" /\ calls[p].status = 200)
        => /\ broadcasts = <<>>
           /\ calls[p].outcome # Resolved(Null)
           /\ (o.pc = "settled" /\ calls[p].method = "getVideoSources")
                => o.result.ok /\ o.result.v.t = "videoEntity"

(* C8: in a fetch, every one of clientId, clientSecret and accountId that
   the channel's secrets have replaces the client's own in every request
   (Basic of the channel's clientId and clientSecret for the token, the
   channel's accountId in the path), and every one they do not have is the
   client's own. *)
C8_ChannelSecretsOverride ==
  \A r \in sent :
    LET secrets == orch[r.proc].channel.secrets
        clientId == IF "clientId" \in DOMAIN secrets
                    THEN secrets.clientId ELSE client.clientId
        clientSecret == IF "clientSecret" \in DOMAIN secrets
                        THEN secrets.clientSecret ELSE client.clientSecret
        accountId == IF "accountId" \in DOMAIN secrets
                     THEN secrets.accountId ELSE client.accountId
    IN  (orch[r.proc].kind \in {"video", "playlist"} /\ client.variant = "queue")
        => IF IsTokenRequest(r)
           THEN r.authorization =
                  [scheme |-> "Basic", id |-> clientId, secret |-> clientSecret]
           ELSE r.path[2] = accountId

(* C9: when the channel's secrets have a policyKey, the getVideo request of
   the fetch goes to the playback API with BCOV-Policy and the channel's
   key, and no token is requested for it. *)
C9_ChannelPolicyKey ==
  \A p \in Procs :
    LET o == orch[p]
    IN  (/\ o.kind = "video" /\ client.variant = "policy"
         /\ "policyKey" \in DOMAIN o.channel.secrets
         /\ o.channel.secrets.policyKey # ""
         /\ calls[p].method = "getVideo")
        => \A r \in sent :
             r.proc = p
             => /\ r.baseUrl = PLAYBACK_API_BASE_URL
                /\ r.authorization =
                     [key |-> o.channel.secrets.policyKey, scheme |-> "BCOV-Policy"]


(***************************************************************************)
(* initialize(options): the client, the two handlers and their             *)
(* registration on the bus; then the bus hands a query to the handler      *)
(* registered for its pattern.                                             *)
(***************************************************************************)
DEFAULTS ==
  [collectionTransform |-> "default-collection-transform",
   videoTransform |-> "default-video-transform"]

(* Object.assign({}, DEFAULTS, options || {}) *)
WithDefaults(options) ==
  [options EXCEPT
     !.collectionTransform = IF @ = Undefined THEN DEFAULTS.collectionTransform ELSE @,
     !.videoTransform = IF @ = Undefined THEN DEFAULTS.videoTransform ELSE @]

(* new Client({bus, clientId, clientSecret, accountId}) *)
ClientOfInitialize(options) ==
  Constructor("queue", options.clientId, options.clientSecret, options.accountId,
              Undefined, 0)

(* the handler that createPlaylistHandler or createVideoHandler returns *)
Handler(kind, handlerClient, transform) ==
  [client |-> handlerClient, kind |-> kind, transform |-> transform]

Pattern(source) == [source |-> source, role |-> "provider", cmd |-> "get"]

queryHandlerFirst(bus, pattern, handler) ==
  <<[pattern |-> pattern, handler |-> handler]>> \o bus

(* bus.queryHandler(pattern, handler) *)
queryHandler(bus, pattern, handler) ==
  Append(bus, [pattern |-> pattern, handler |-> handler])

Initialize ==
  LET options == WithDefaults(provider.options)
      newClient == ClientOfInitialize(options)
      playlistHandler == Handler("playlist", newClient, options.collectionTransform)
      videoHandler == Handler("video", newClient, options.videoTransform)
  IN  /\ provider.state = "start"
      /\ IF ~options.bus
         THEN /\ provider' = [provider EXCEPT !.state = "threw"]
              /\ UNCHANGED client
         ELSE /\ client' = newClient
              /\ provider' =
                   [provider EXCEPT
                      !.state = "done",
                      !.created = <<playlistHandler, videoHandler>>,
                      !.bus = queryHandler(
                                queryHandler(provider.bus,
                                             Pattern("brightcove-playlist"),
                                             playlistHandler),
                                Pattern("brightcove-video"), videoHandler),
                      !.result = [client |-> newClient,
                                  name |-> "brightcove-provider"]]
      /\ UNCHANGED <<probe, pending, inflight, calls, orch, broadcasts, sent,
                     issued, upstream>>

(* the specs of the queries the bus is sent *)
QuerySpecs(source) ==
  IF source = "brightcove-playlist"
  THEN {CatalogSpec("collectionSpec", "spec-1", Keys(Undefined, "12345"), NoKeys,
                    NoFlags)}
  ELSE {CatalogSpec("videoSpec", "spec-2", NoKeys, Keys("12345", Undefined),
                    NoFlags)}

(* bus.query(pattern, {spec, object}): the handler registered for the
   pattern is called, one query in all *)
BusQuery(p) ==
  \E source \in {"brightcove-playlist", "brightcove-video"} :
    \E spec \in QuerySpecs(source) :
      \E i \in 1..Len(provider.bus) :
        /\ provider.state = "done"
        /\ \A q \in Procs : orch[q].kind = "none"
        /\ provider.bus[i].pattern = Pattern(source)
        /\ orch' = [orch EXCEPT ![p] = Query(provider.bus[i].handler.kind, spec)]
        /\ UNCHANGED <<provider, probe, client, pending, inflight, calls,
                       broadcasts, sent, issued, upstream>>

NoClient == Constructor("none", Undefined, Undefined, Undefined, Undefined, 0)

InitInitialize ==
  /\ client = NoClient
  /\ pending = <<>>
  /\ inflight = {}
  /\ calls = [p \in Procs |-> IdleCall]
  /\ orch = [p \in Procs |-> IdleOrch]
  /\ broadcasts = <<>>
  /\ sent = {}
  /\ issued = 0
  /\ upstream = Account(<<Video("V1", 2, NoSchedule)>>, NoSchedule)
  /\ \E bus \in BOOLEAN :
       \E limit \in 0..MaxLimit :
         provider = Uninitialized(
           Options(bus, "fake-client-id", "fake-client-secret", "fake-account-id",
                   limit, Undefined, Undefined))
  /\ probe = NoProbe

NextInitialize ==
  \/ Initialize
  \/ \E p \in Procs : BusQuery(p)
  \/ \E p \in Procs : PlaylistHandler(p)
  \/ \E p \in Procs : PlaylistStart(p)
  \/ \E p \in Procs : Continue(p)
  \/ Settle
  \/ \E p \in Procs : PlaylistFetched(p)
  \/ \E p \in Procs : VideosFetched(p)
  \/ \E p \in Procs : CommandResolves(p)
  \/ \E p \in Procs : CommandRejects(p)
  \/ \E p \in Procs : PlaylistAssembled(p)
  \/ \E p \in Procs : VideoHandler(p)
  \/ \E p \in Procs : VideoStart(p)
  \/ \E p \in Procs : VideoFetched(p)
  \/ \E p \in Procs : SourcesFetched(p)
  \/ \E p \in Procs : Deliver(p)

SpecInitialize == InitInitialize /\ [][NextInitialize]_vars

(* C11: initialize registers two query handlers on the bus and no more: the
   playlist handler for {role: provider, cmd: get, source: brightcove-playlist}
   first, the video handler for source brightcove-video second, each created
   once, with the client that initialize returns. *)
C11_TwoHandlersRegistered ==
  IF provider.state = "done"
  THEN /\ Len(provider.bus) = 2
       /\ provider.bus[1].pattern =
            [source |-> "brightcove-playlist", role |-> "provider", cmd |-> "get"]
       /\ provider.bus[1].handler.kind = "playlist"
       /\ provider.bus[2].pattern =
            [source |-> "brightcove-video", role |-> "provider", cmd |-> "get"]
       /\ provider.bus[2].handler.kind = "video"
       /\ Len(provider.created) = 2
       /\ \A kind \in {"playlist", "video"} :
            Cardinality({i \in 1..2 : provider.created[i].kind = kind}) = 1
       /\ \A i \in 1..2 :
            /\ provider.created[i].client = provider.result.client
            /\ provider.bus[i].handler.client = provider.result.client
       /\ provider.result.client = client
       /\ provider.result.name = "brightcove-provider"
  ELSE provider.bus = <<>> /\ provider.created = <<>>

(* initialize has returned and a query has reached the video handler, the
   second one registered *)
C11_Witness ==
  /\ provider.state = "done"
  /\ \E p \in Procs : orch[p].kind = "video" /\ orch[p].pc = "settled"

(* C12: the client that initialize returns has the clientId, clientSecret,
   accountId and concurrentRequestLimit of the options, and 20 as its limit
   when the options give none. *)
C12_ClientOfOptions ==
  provider.state = "done"
  => /\ provider.result.client = client
     /\ client.clientId = provider.options.clientId
     /\ client.clientSecret = provider.options.clientSecret
     /\ client.accountId = provider.options.accountId
     /\ client.concurrentRequestLimit =
          (IF provider.options.concurrentRequestLimit = 0
           THEN 20 ELSE provider.options.concurrentRequestLimit)


(***************************************************************************)
(* Client.request and Client.resolveIfScheduled on their own: a response   *)
(* of the transport is handed to request and the method makes its result   *)
(* of what request settles with; a record is handed to resolveIfScheduled  *)
(* at a time now.                                                          *)
(***************************************************************************)
BodyOf(method, videos) ==
  IF method = "getPlaylist" THEN Playlist("12345")
  ELSE IF method \in {"getVideos", "getVideosByPlaylist"} THEN List(videos)
  ELSE IF method = "getVideo" THEN Video("12345", 1, NoSchedule)
  ELSE Sources

RequestProbe(method, flags, res, now) ==
  [now |-> now, res |-> res, method |-> method, flags |-> flags, out |-> Unsettled,
   result |-> Unsettled, fn |-> "request", applied |-> FALSE]

ScheduleProbe(video, now) ==
  [now |-> now, video |-> video, out |-> Null, fn |-> "resolveIfScheduled",
   applied |-> FALSE]

InitProbe ==
  LET statuses == {200, 204, 209, 210, 299, 301, 404, 500}
      contentTypes == {JSON_TYPE, <<"application/json", "charset=utf-8">>,
                       HTML_TYPE, <<>>}
      methods == {Methods[i] : i \in 1..Len(Methods)} \cup {"getVideos"}
      stamps == {Unparsable} \cup {Iso(n) : n \in 0..MaxTime}
      schedules == {NoSchedule,
                    [NoSchedule EXCEPT !.has = TRUE],
                    [NoSchedule EXCEPT !.has = TRUE, !.value = "null"]}
                   \cup {Schedule(s, e) : s \in stamps, e \in stamps}
      listed == {Video("V1", 1, NoSchedule),
                 Video("V2", 2, Schedule(Iso(1), Iso(2))),
                 Video("V3", 3, Schedule(Iso(2), Unparsable))}
      given == {Source("https", "S1", "MP4", Undefined, "A1"),
                Source("http", "S2", "MP4", Undefined, "A2"),
                [Source("https", "S3", "M2TS", "application/x-mpegURL", Undefined)
                   EXCEPT !.width = -1, !.height = -1, !.encoding_rate = -1],
                [Source("https", "S4", Undefined, Undefined, Undefined)
                   EXCEPT !.width = -1, !.encoding_rate = 3],
                Source("none", Undefined, "MP4", Undefined, "A5"),
                Source("https", "S6", "mp4", "video/webm", Undefined),
                Source("https", "S7", "WEBM", Undefined, "A7")}
      flagsOf == {NoFlags, [skipScheduleCheck |-> TRUE],
                  [skipScheduleCheck |-> FALSE], [sortByReleaseDate |-> TRUE],
                  [skipScheduleCheck |-> TRUE, sortByReleaseDate |-> TRUE]}
  IN  /\ client \in {Constructor("queue", "foo", "foo", "foo", Undefined, 0),
                     Constructor("policy", "foo", "foo", "foo", "foo", 0)}
      /\ pending = <<>>
      /\ inflight = {}
      /\ calls = [p \in Procs |-> IdleCall]
      /\ orch = [p \in Procs |-> IdleOrch]
      /\ broadcasts = <<>>
      /\ sent = {}
      /\ issued = 0
      /\ upstream = Account(<<>>, NoSchedule)
      /\ provider = NoProvider
      /\ probe \in
           UNION {{RequestProbe(method, NoFlags, TransportFailure, 1)} \cup
                  {RequestProbe(method, NoFlags, Response(status, type, body), 1) :
                     status \in statuses, type \in contentTypes,
                     body \in {JsonBody(BodyOf(method, <<>>)), MalformedBody,
                               NoBody}} :
                    method \in methods}
           \cup
           {RequestProbe(method, flags,
                         Response(200, JSON_TYPE, JsonBody(List(videos))), now) :
              method \in {"getVideos", "getVideosByPlaylist"}, flags \in flagsOf,
              videos \in ListsOver(listed, MaxVideos), now \in 0..MaxTime}
           \cup
           {ScheduleProbe(Video("V1", 1, schedule), now) :
              schedule \in schedules, now \in 0..(MaxTime + 1)}
           \cup
           {[sources |-> sources, out |-> <<>>, fn |-> "formatSources",
             applied |-> FALSE] : sources \in ListsOver(given, MaxVideos)}

(* request(params) settles, and the then of the get* method runs *)
ApplyRequest ==
  LET out == IF client.variant = "policy"
             THEN requestOfPolicyClient(probe.res) ELSE request(probe.res)
      c == [IdleCall EXCEPT !.method = probe.method, !.flags = probe.flags]
  IN  /\ probe.fn = "request"
      /\ ~probe.applied
      /\ probe' = [probe EXCEPT !.applied = TRUE, !.out = out,
                                !.result = MethodResult(c, out, probe.now)]
      /\ UNCHANGED <<provider, client, pending, inflight, calls, orch, broadcasts,
                     sent, issued, upstream>>

ApplyResolveIfScheduled ==
  /\ probe.fn = "resolveIfScheduled"
  /\ ~probe.applied
  /\ probe' = [probe EXCEPT !.applied = TRUE,
                            !.out = resolveIfScheduled(probe.video, probe.now)]
  /\ UNCHANGED <<provider, client, pending, inflight, calls, orch, broadcasts,
                 sent, issued, upstream>>

ApplyFormatSources ==
  /\ probe.fn = "formatSources"
  /\ ~probe.applied
  /\ probe' = [probe EXCEPT !.applied = TRUE, !.out = formatSources(probe.sources)]
  /\ UNCHANGED <<provider, client, pending, inflight, calls, orch, broadcasts,
                 sent, issued, upstream>>

NextProbe == ApplyRequest \/ ApplyResolveIfScheduled \/ ApplyFormatSources

SpecProbe == InitProbe /\ [][NextProbe]_vars

(* C13: a response with status 404 settles the request with null, never with
   a rejection, whatever its body and content type; so getPlaylist, as every
   other method, resolves null on a 404. *)
C13_NotFoundResolvesNull ==
  (probe.fn = "request" /\ probe.applied /\ ~probe.res.err
     /\ probe.res.statusCode = 404)
  => probe.out = Resolved(Null) /\ probe.result = Resolved(Null)

(* getPlaylist of the client with the queue has been answered 404 with a
   well-formed JSON body *)
C13_Witness ==
  /\ probe.fn = "request" /\ probe.applied /\ client.variant = "queue"
  /\ probe.method = "getPlaylist"
  /\ probe.res = Response(404, JSON_TYPE, JsonBody(Playlist("12345")))
  /\ probe.result = Resolved(Null)

(* C14: a response whose status is neither 2xx nor 404 rejects the request,
   never resolves it, and the error of the rejection carries the response's
   statusCode, statusMessage and body. *)
C14_RejectionCarriesResponse ==
  (probe.fn = "request" /\ probe.applied /\ ~probe.res.err
     /\ probe.res.statusCode # 404
     /\ ~(probe.res.statusCode \in 200..299))
  => /\ ~probe.out.ok
     /\ "output" \in DOMAIN probe.out.v
     /\ probe.out.v.output.statusCode = probe.res.statusCode
     /\ probe.out.v.message = probe.res.statusMessage
     /\ probe.out.v.data = probe.res.body


(* C17: a record whose schedule has two parsable bounds is visible, that is
   resolveIfScheduled resolves the record and not null, exactly when
   starts_at < now <= ends_at: visible at now = ends_at, not visible at
   now = ends_at + 1. *)
C17_VisibleInsideWindow ==
  (probe.fn = "resolveIfScheduled" /\ probe.applied
     /\ probe.video.schedule.value = "object"
     /\ probe.video.schedule.starts_at.parsable
     /\ probe.video.schedule.ends_at.parsable)
  => ((probe.out = probe.video)
      <=> (/\ probe.video.schedule.starts_at.at < probe.now
           /\ probe.now <= probe.video.schedule.ends_at.at))

(* C18: a record that has no schedule property, or whose schedule is null or
   undefined, is always visible: resolveIfScheduled resolves the record
   itself. *)
C18_NoScheduleIsVisible ==
  (probe.fn = "resolveIfScheduled" /\ probe.applied
     /\ probe.video.schedule.value # "object")
  => probe.out = probe.video

(* a record whose schedule is null has been resolved at the latest time *)
C18_Witness ==
  /\ probe.fn = "resolveIfScheduled" /\ probe.applied
  /\ probe.video.schedule.has /\ probe.video.schedule.value = "null"
  /\ probe.now = MaxTime + 1
  /\ probe.out = probe.video

(* C19: a record whose schedule has a parsable starts_at is not visible at
   any now <= starts_at, the equality included, whatever its ends_at. *)
C19_HiddenUntilStart ==
  (probe.fn = "resolveIfScheduled" /\ probe.applied
     /\ probe.video.schedule.value = "object"
     /\ probe.video.schedule.starts_at.parsable
     /\ probe.now <= probe.video.schedule.starts_at.at)
  => probe.out = Null

(* now is the starts_at of a schedule whose ends_at does not parse *)
C19_Witness ==
  /\ probe.fn = "resolveIfScheduled" /\ probe.applied
  /\ probe.video.schedule.value = "object"
  /\ probe.video.schedule.starts_at = Iso(probe.now)
  /\ ~probe.video.schedule.ends_at.parsable
  /\ probe.now > 0
  /\ probe.out = Null

(* C20: without skipScheduleCheck the result of getVideos and of
   getVideosByPlaylist is the upstream records that resolveIfScheduled
   resolves, each once and in the upstream order; with skipScheduleCheck it
   is the upstream sequence as it came. *)
C20_VisibleSubsequence ==
  (/\ probe.fn = "request" /\ probe.applied /\ client.variant = "queue"
   /\ probe.method \in {"getVideos", "getVideosByPlaylist"}
   /\ probe.method = "getVideos" \/ ~GetFlag(probe.flags, "sortByReleaseDate", FALSE)
   /\ probe.out.ok /\ probe.out.v.t = "list")
  => LET upstreamVideos == probe.out.v.videos
         visible == {i \in 1..Len(upstreamVideos) :
                       resolveIfScheduled(upstreamVideos[i], probe.now) # Null}
         kept == probe.result.v.videos
     IN  /\ probe.result.ok
         /\ IF GetFlag(probe.flags, "skipScheduleCheck", FALSE)
            THEN kept = upstreamVideos
            ELSE /\ Len(kept) = Cardinality(visible)
                 /\ \A i \in 1..Len(kept) : \E j \in visible :
                      /\ kept[i] = upstreamVideos[j]
                      /\ Cardinality({k \in visible : k < j}) = i - 1

(* of two upstream records the first is hidden and the second is kept *)
C20_Witness ==
  /\ probe.fn = "request" /\ probe.applied /\ client.variant = "queue"
  /\ probe.method = "getVideos"
  /\ probe.out.ok /\ probe.out.v.t = "list" /\ Len(probe.out.v.videos) = 2
  /\ ~GetFlag(probe.flags, "skipScheduleCheck", FALSE)
  /\ probe.result = Resolved(List(<<probe.out.v.videos[2]>>))


(***************************************************************************)
(* One call of a method of the client with the queue, with any of its      *)
(* arguments given or left out, on a client that has or lacks each of its  *)
(* credentials.                                                            *)
(***************************************************************************)
Call(p) ==
  \E method \in {Methods[i] : i \in 1..Len(Methods)} \cup {"getVideos"} :
    \E given \in SUBSET {"accessToken", "accountId", "clientId", "clientSecret",
                         IdKey(method)} :
      LET args == [k \in given |->
                     IF k = IdKey(method) THEN "12345" ELSE "given-" \o k]
          started == ClientCall(p, method, args, NoFlags)
      IN  /\ calls[p].phase = "idle"
          /\ calls' = [calls EXCEPT ![p] = started.call]
          /\ Submit(started.push, started.direct, inflight)
          /\ UNCHANGED <<provider, probe, client, orch, broadcasts, issued,
                         upstream>>

InitClient ==
  /\ client \in {Constructor("queue", clientId, clientSecret, accountId, Undefined, 0) :
                   clientId \in {"foo", Undefined},
                   clientSecret \in {"foo", Undefined},
                   accountId \in {"foo", Undefined}}
  /\ pending = <<>>
  /\ inflight = {}
  /\ calls = [p \in Procs |-> IdleCall]
  /\ orch = [p \in Procs |-> IdleOrch]
  /\ broadcasts = <<>>
  /\ sent = {}
  /\ issued = 0
  /\ upstream = Account(<<Video("V1", 2, NoSchedule)>>, NoSchedule)
  /\ provider = NoProvider
  /\ probe = NoProbe

NextClient ==
  \/ \E p \in {1} : Call(p)
  \/ \E p \in {1} : Continue(p)
  \/ Settle

SpecClient == InitClient /\ [][NextClient]_vars

(* C15: a call that gives a string accessToken has its token, that string,
   without a token request; it hands one request to the transport, the
   resource request, with the authorization Bearer and that string. *)
C15_GivenTokenIsUsed ==
  \A p \in Procs :
    LET c == calls[p]
        mine == {r \in sent \cup inflight \cup
                       {pending[i] : i \in 1..Len(pending)} : r.proc = p}
    IN  (c.phase # "idle" /\ isString(Arg(c.args, "accessToken")))
        => /\ \A r \in mine :
                /\ ~IsTokenRequest(r)
                /\ r.authorization =
                     [scheme |-> "Bearer",
                      token |-> GivenToken(c.args["accessToken"])]
           /\ c.threw \/ c.token = Resolved([t |-> "token",
                           access_token |-> GivenToken(c.args["accessToken"])])
           /\ (c.phase \in {"resource", "settled"} /\ ~c.threw)
                => Cardinality(mine) = 1 /\ mine \subseteq sent

(* a call of getVideos on a client without credentials, given an accessToken
   and an accountId, has been answered *)
C15_Witness ==
  /\ client.clientId = Undefined /\ client.accountId = Undefined
  /\ calls[1].method = "getVideos" /\ calls[1].phase = "settled"
  /\ isString(Arg(calls[1].args, "accessToken"))
  /\ calls[1].outcome.ok
  /\ Cardinality(sent) = 1

(* C16: a call of a method whose accountId is missing from the call and the
   client, or whose playlistId or videoId is missing, or that has no
   accessToken and lacks a clientId or clientSecret in the call and the
   client, throws to its caller before it returns, and no request of it,
   token or resource, is handed to the queue. *)
C16_ConfigurationErrorIsSynchronous ==
  \A p \in Procs :
    LET c == calls[p]
        missing(key) ==
          ~(isString(Arg(c.args, key)) \/ (key \notin DOMAIN c.args /\ isString(client[key])))
    IN  (/\ c.phase # "idle"
         /\ \/ missing("accountId")
            \/ c.method # "getVideos" /\ ~isString(Arg(c.args, IdKey(c.method)))
            \/ /\ ~isString(Arg(c.args, "accessToken"))
               /\ missing("clientId") \/ missing("clientSecret"))
        => /\ c.threw /\ c.phase = "settled"
           /\ ~c.outcome.ok /\ c.outcome.v.t = "error"
           /\ sent = {} /\ inflight = {} /\ pending = <<>>

(* a call with its id and an accountId, but no accessToken and no
   clientSecret anywhere, has thrown *)
C16_Witness ==
  /\ client.clientSecret = Undefined
  /\ calls[1].threw
  /\ DOMAIN calls[1].args = {"accountId", "clientId", IdKey(calls[1].method)}
  /\ calls[1].method = "getPlaylist"
  /\ sent = {}


(* C21: requests that wait for a slot are handed to the transport in the
   order they were pushed: in every step a waiting request is started only
   together with all that were pushed before it, a request pushed now is not
   started ahead of one that waits, and those that keep waiting keep their
   order, the new ones behind them. *)
C21_Fifo ==
  [][/\ \A i, j \in 1..Len(pending) :
          (i < j /\ pending[j] \in sent') => pending[i] \in sent'
     /\ \A r \in sent' \ sent : pending # <<>> => r = pending[1]
     /\ \E k \in 0..Len(pending) :
          /\ Len(pending) - k <= Len(pending')
          /\ \A i \in 1..(Len(pending) - k) : pending'[i] = pending[i + k]
          /\ \A i \in 1..k : pending[i] \in sent']_vars

(* with one slot, two requests have been started and two of different calls
   wait *)
C21_Witness ==
  /\ client.concurrentRequestLimit = 1
  /\ Cardinality(sent) >= 2
  /\ Len(pending) >= 2
  /\ pending[1].proc # pending[2].proc


(* C22: for a playlist that is there, the orchestrator sends one setItemSpec
   command for each video that getVideosByPlaylist resolved, newest
   published_at first, each with {channel: channel.id, type: videoSpec,
   source: brightcove-video, video} and the id spec-brightcove-video-<id> only
   for a video that has an id; all are sent in one step, before any of them
   settles, and the collection is resolved only when every one of them has
   been resolved. *)
C22_OneCommandPerVideo ==
  \A p \in Procs :
    LET o == orch[p]
        out == calls[p].outcome
        videos == IF out.ok /\ out.v.t = "list" THEN out.v.videos ELSE <<>>
    IN  (o.kind = "playlist" /\ (o.pc = "commands" \/ o.cmds # <<>>))
        => /\ Len(o.cmds) = Len(videos)
           /\ \A i \in 1..Len(videos) :
                Cardinality({j \in 1..Len(o.cmds) : o.cmds[j].spec.video = videos[i]})
                  = Cardinality({j \in 1..Len(videos) : videos[j] = videos[i]})
           /\ \A i, j \in 1..Len(o.cmds) :
                i < j => o.cmds[i].spec.video.published_at
                           >= o.cmds[j].spec.video.published_at
           /\ \A i \in 1..Len(o.cmds) :
                LET spec == o.cmds[i].spec
                IN  /\ spec.channel = o.channel.id
                    /\ spec.type = "videoSpec"
                    /\ spec.source = "brightcove-video"
                    /\ spec.id = IF spec.video.id \in {Undefined, ""}
                                 THEN <<>>
                                 ELSE <<"spec-brightcove-video-", spec.video.id>>
           /\ (o.pc = "settled" /\ o.result.ok /\ o.cmds # <<>>)
                => \A i \in 1..Len(o.cmds) : o.cmds[i].state = "resolved"

(* two videos that came oldest first, one of them without an id, have been
   sent newest first and the collection has been resolved *)
C22_Witness ==
  \E p \in Procs :
    /\ orch[p].kind = "playlist" /\ orch[p].pc = "settled" /\ orch[p].result.ok
    /\ Len(orch[p].cmds) = 2
    /\ orch[p].cmds[1].spec.video = calls[p].outcome.v.videos[2]
    /\ orch[p].cmds[1].spec.video.id = Undefined
    /\ orch[p].cmds[1].spec.video.published_at
         > orch[p].cmds[2].spec.video.published_at


(* C23: when getVideosByPlaylist resolves no video for a playlist that is
   there (an empty list, a list of which every record was hidden, or null),
   the orchestrator sends no setItemSpec command and resolves the collection
   with relationships.entities.data present and empty. *)
C23_NoVideosNoCommands ==
  \A p \in Procs :
    LET o == orch[p]
        c == calls[p]
    IN  (/\ o.kind = "playlist" /\ o.pc \in {"commands", "settled"}
         /\ c.method = "getVideosByPlaylist" /\ c.phase = "settled"
         /\ c.outcome.ok
         /\ c.outcome.v = Null \/ c.outcome.v = List(<<>>))
        => /\ o.cmds = <<>>
           /\ o.pc = "settled"
                => /\ o.result.ok
                   /\ o.result.v.t = "collection"
                   /\ o.result.v.relationships.hasEntities
                   /\ o.result.v.relationships.data = <<>>

(* every video of the upstream list was hidden and the collection has been
   resolved *)
C23_Witness ==
  \E p \in Procs :
    /\ orch[p].kind = "playlist" /\ orch[p].pc = "settled"
    /\ calls[p].method = "getVideosByPlaylist" /\ calls[p].status = 200
    /\ upstream.videos # <<>>
    /\ calls[p].outcome = Resolved(List(<<>>))
    /\ orch[p].result.ok
    /\ orch[p].result.v.relationships.data = <<>>


(* C24: when a bound of the schedule is missing or does not parse, the check
   decides as if that bound alone were absent: with only starts_at usable the
   record is visible exactly when now > starts_at; with only ends_at usable,
   or with neither, it is visible at every now. *)
C24_UnusableBoundIsAbsent ==
  (probe.fn = "resolveIfScheduled" /\ probe.applied
     /\ probe.video.schedule.value = "object"
     /\ ~(probe.video.schedule.starts_at.parsable
          /\ probe.video.schedule.ends_at.parsable))
  => ((probe.out = probe.video)
      <=> (probe.video.schedule.starts_at.parsable
             => probe.now > probe.video.schedule.starts_at.at))


(* C25: with sortByReleaseDate, getVideosByPlaylist resolves a permutation of
   the records the filter kept, in the order of non-increasing release date,
   where the release date of a record is its schedule's starts_at when it has
   a schedule and starts_at parses, else its published_at; records of one
   release date keep the order they had. *)
C25_SortedByReleaseDate ==
  (/\ probe.fn = "request" /\ probe.applied /\ client.variant = "queue"
   /\ probe.method = "getVideosByPlaylist"
   /\ GetFlag(probe.flags, "sortByReleaseDate", FALSE)
   /\ probe.out.ok /\ probe.out.v.t = "list")
  => LET filtered == IF GetFlag(probe.flags, "skipScheduleCheck", FALSE)
                     THEN probe.out.v.videos
                     ELSE Published(probe.out.v.videos, probe.now)
         kept == probe.result.v.videos
         date(video) == IF video.schedule.value = "object"
                           /\ video.schedule.starts_at.parsable
                        THEN video.schedule.starts_at.at
                        ELSE video.published_at
     IN  /\ probe.result.ok
         /\ Len(kept) = Len(filtered)
         /\ \E f \in [1..Len(kept) -> 1..Len(kept)] :
              /\ \A i, j \in 1..Len(kept) : i # j => f[i] # f[j]
              /\ \A i \in 1..Len(kept) : kept[i] = filtered[f[i]]
              /\ \A i, j \in 1..Len(kept) :
                   i < j => \/ date(kept[i]) > date(kept[j])
                            \/ date(kept[i]) = date(kept[j]) /\ f[i] < f[j]

(* a record published later but released together with the one before it
   has kept its place *)
C25_Witness ==
  /\ probe.fn = "request" /\ probe.applied /\ client.variant = "queue"
  /\ probe.method = "getVideosByPlaylist"
  /\ GetFlag(probe.flags, "sortByReleaseDate", FALSE)
  /\ probe.out.ok /\ probe.out.v.t = "list" /\ Len(probe.out.v.videos) = 2
  /\ probe.out.v.videos[1].published_at < probe.out.v.videos[2].published_at
  /\ probe.out.v.videos[2].schedule.value = "object"
  /\ probe.result = Resolved(List(probe.out.v.videos))


(* C26: for a response with a status in 200..299 the outcome is fixed by
   status, content type and body: 204 resolves an empty object; otherwise a
   JSON content type with a well-formed string body resolves the parsed
   value, with a malformed string body rejects with a parsing error, with no
   string body rejects with an empty-body error, and any other content type
   rejects with a content-type error. *)
C26_SuccessOutcomes ==
  (/\ probe.fn = "request" /\ probe.applied /\ client.variant = "queue"
   /\ ~probe.res.err /\ probe.res.statusCode \in 200..299)
  => LET res == probe.res
         isJson == Len(res.contentType) > 0 /\ res.contentType[1] = "application/json"
     IN  probe.out =
           IF res.statusCode = 204 THEN Resolved(EmptyObject)
           ELSE IF isJson /\ res.body.isString /\ res.body.wellFormed
           THEN Resolved(res.body.json)
           ELSE IF isJson /\ res.body.isString
           THEN Rejected(Error("brightcove client JSON parsing error", ""))
           ELSE IF isJson
           THEN Rejected(Error("brightcove client received an empty JSON body", ""))
           ELSE Rejected(Error(
                  "brightcove client expects content-type to be application/json", ""))


(* C27: a call made without an accessToken makes its own token request and
   uses no token of another call: its resource request is pushed only when
   its own token request has settled, carries Bearer with the access_token of
   that token response, and is not pushed at all when the token request
   failed. *)
C27_TokenPerCall ==
  LET all == sent \cup inflight \cup {pending[i] : i \in 1..Len(pending)}
      tokenRequests(p, n) == {r \in all : r.proc = p /\ r.call = n /\ IsTokenRequest(r)}
  IN  /\ \A r \in all :
           ~IsTokenRequest(r)
           => /\ r.authorization =
                   [scheme |-> "Bearer", token |-> IssuedToken(<<r.proc, r.call>>)]
              /\ Cardinality(tokenRequests(r.proc, r.call)) = 1
              /\ tokenRequests(r.proc, r.call) \subseteq sent \ inflight
              /\ \A q \in all : (q.proc = r.proc /\ q.call = r.call /\ ~IsTokenRequest(q))
                                  => q = r
      /\ \A p \in Procs :
           LET c == calls[p]
           IN  /\ (c.phase # "idle" /\ ~c.threw)
                    => Cardinality(tokenRequests(p, c.seq)) = 1
               /\ (c.token # Unsettled /\ ~c.token.ok)
                    => \A r \in all : (r.proc = p /\ r.call = c.seq) => IsTokenRequest(r)

(* three calls run together; two have pushed their resource requests, each
   with its own token, and the token request of the third has failed *)
C27_Witness ==
  \E p, q, f \in Procs :
    /\ p # q
    /\ calls[p].phase \in {"resource", "settled"} /\ calls[p].token.ok
    /\ calls[q].phase \in {"resource", "settled"} /\ calls[q].token.ok
    /\ calls[p].token # calls[q].token
    /\ calls[f].phase = "settled" /\ ~calls[f].token.ok /\ calls[f].token # Unsettled
    /\ Cardinality({r \in sent : ~IsTokenRequest(r)}) = 2


(* C28: the sources of the video transform are the given sources that have a
   src that starts with https, in the order given; of each, mimeType is its
   type if it has one, else video/mp4 if its container is MP4 in either case,
   else the empty string; label is mp4-<width>x<height> for an MP4 container,
   else hls for the type application/x-mpegURL, else its asset id, else its
   place among the sources kept; width, height and maxBitrate are 0 when the
   source has none. *)
C28_FormatSources ==
  (probe.fn = "formatSources" /\ probe.applied)
  => LET sources == probe.sources
         secure == {i \in 1..Len(sources) :
                      sources[i].src # Undefined /\ sources[i].scheme = "https"}
         present(x) == x # Undefined /\ x # ""
         isMp4(source) == source.container \in {"MP4", "mp4"}
     IN  /\ Len(probe.out) = Cardinality(secure)
         /\ \A k \in 1..Len(probe.out) :
              \E j \in secure :
                LET source == sources[j]
                    entry == probe.out[k]
                IN  /\ Cardinality({i \in secure : i < j}) = k - 1
                    /\ entry.url = source.src
                    /\ entry.container = source.container
                    /\ entry.mimeType =
                         (IF present(source.type) THEN source.type
                          ELSE IF isMp4(source) THEN "video/mp4" ELSE "")
                    /\ entry.label =
                         (IF isMp4(source)
                          THEN [mp4 |-> <<source.width, source.height>>]
                          ELSE IF source.type = "application/x-mpegURL"
                          THEN [text |-> "hls"]
                          ELSE IF present(source.asset_id)
                          THEN [text |-> source.asset_id]
                          ELSE [index |-> k - 1])
                    /\ entry.width = (IF source.width = -1 THEN 0 ELSE source.width)
                    /\ entry.height = (IF source.height = -1 THEN 0 ELSE source.height)
                    /\ entry.maxBitrate =
                         (IF source.encoding_rate = -1 THEN 0 ELSE source.encoding_rate)

(* of two sources the first went by http; the second, without width, asset
   id, type or container, is kept with its place as label and width 0 *)
C28_Witness ==
  /\ probe.fn = "formatSources" /\ probe.applied
  /\ Len(probe.sources) = 2
  /\ probe.sources[1].scheme = "http"
  /\ probe.sources[2].width = -1
  /\ Len(probe.out) = 1
  /\ probe.out[1].label = [index |-> 0]
  /\ probe.out[1].width = 0
  /\ probe.out[1].maxBitrate = 3


(* C29: an orchestrator that has found its playlist or its video absent, and
   so rejected with PLAYLIST_NOT_FOUND or VIDEO_NOT_FOUND, has made no call
   of the client but the first: no request for the playlist's videos or for
   the video's sources, no setItemSpec command, no transform of a record. *)
C29_NothingAfterAbsence ==
  \A p \in Procs :
    LET o == orch[p]
        all == sent \cup inflight \cup {pending[i] : i \in 1..Len(pending)}
    IN  (/\ o.pc = "settled" /\ ~o.result.ok /\ o.result.v.t = "error"
         /\ o.result.v.code \in {"PLAYLIST_NOT_FOUND", "VIDEO_NOT_FOUND"})
        => /\ o.cmds = <<>>
           /\ o.video = Null
           /\ calls[p].phase = "settled"
           /\ calls[p].method = (IF o.kind = "playlist" THEN "getPlaylist"
                                 ELSE "getVideo")
           /\ \A r \in all :
                r.proc = p
                => /\ r \in sent \ inflight
                   /\ r.call = calls[p].seq
                   /\ \/ IsTokenRequest(r)
                      \/ /\ Len(r.path) = 4
                         /\ r.path[3] = (IF o.kind = "playlist" THEN "playlists"
                                         ELSE "videos")

(* the playlist handler that initialize registered has found its playlist
   absent after a token request and a playlist request *)
C29_Witness ==
  \E p \in Procs :
    /\ provider.state = "done"
    /\ orch[p].kind = "playlist" /\ orch[p].pc = "settled"
    /\ ~orch[p].result.ok /\ orch[p].result.v.t = "error"
    /\ orch[p].result.v.code = "PLAYLIST_NOT_FOUND"
    /\ Cardinality(sent) = 2


(***************************************************************************)
(* The calls of Spec when every request handed to the transport is         *)
(* answered in the end and every then of a settled promise runs.           *)
(***************************************************************************)
SpecLive ==
  /\ Init
  /\ [][Next]_vars
  /\ WF_vars(Settle)
  /\ \A p \in Procs : WF_vars(Continue(p))

(* C30: a call has at most one request waiting or in flight at any time, its
   resource request pushed only when its token request has settled; so, when
   every request handed to the transport settles in the end, every request
   pushed is handed to the transport and every call settles, whatever the
   limit and the number of calls: while a call is under way, a state follows
   in which nothing waits or is in flight and every call made has settled. *)
C30_EveryCallSettles ==
  /\ [](\A p \in Procs :
          Cardinality({r \in inflight : r.proc = p}) +
          Cardinality({i \in 1..Len(pending) : pending[i].proc = p}) <= 1)
  /\ (\E p \in Procs : calls[p].phase \notin {"idle", "settled"})
       ~> (/\ pending = <<>>
           /\ inflight = {}
           /\ \A p \in Procs : calls[p].phase \in {"idle", "settled"})

(* with one slot only, every call has settled with its resource request
   answered *)
C30_Witness ==
  /\ client.concurrentRequestLimit = 1
  /\ \A p \in Procs : calls[p].phase = "settled" /\ calls[p].token.ok
  /\ Cardinality(sent) = 2 * NumCalls
  /\ pending = <<>> /\ inflight = {}

====
